---- MODULE Spec2Model ----
(***************************************************************************)
(* Verification model of the VyOS web UI configuration engine:             *)
(*   backend/app/core/config_parser.py    (ConfigNode, ConfigDiff)         *)
(*   backend/app/core/vyos_syntax.py      (VyOSSyntaxParser)               *)
(*   backend/app/core/config_rollback.py  (ConfigRollbackManager)          *)
(*   backend/app/services/config_backup.py (ConfigBackupManager)           *)
(*                                                                         *)
(* Text is a sequence of one-character strings; a segment name and a       *)
(* scalar value are such sequences; a path is a sequence of names.         *)
(* A tree is a function from the paths of its nodes to node records; the   *)
(* record keeps the ordered key list of the node's children dict, so that  *)
(* Python's insertion-ordered iteration is kept.                           *)
(* A nested dict (to_dict's result, from_dict's argument) is the set of    *)
(* its entries <<path, scalar>> and <<path, DictMark>> (a nested dict at   *)
(* that path): two nested dicts are == in Python iff these sets are equal. *)
(***************************************************************************)
EXTENDS Integers, Sequences, FiniteSets, TLC

VARIABLES
    \* ---- VyOSSyntaxParser.config_root and the history of the last call
    config_root,    \* the parser's tree
    prev_root,      \* history: the tree before the last operation
    last_cmd,       \* history: the last operation applied
    ops,            \* number of operations applied so far (bounded)
    \* ---- ConfigNode.from_dict / to_dict round trip
    dict_in,        \* the nested map handed to from_dict (ordered entries)
    dict_tree,      \* the tree from_dict built
    dict_out,       \* what to_dict returned for it
    dict_pc,
    \* ---- VyOSSyntaxParser.parse_config
    stmts,          \* the set statements the text was written from
    config_text,    \* the lines of the text handed to parse_config
    parse_pc,
    \* ---- VyOSSyntaxParser.calculate_diff
    old_config,     \* the two trees compared
    new_config,
    diff,           \* calculate_diff(old_config, new_config)
    diff_rev,       \* calculate_diff(new_config, old_config)
    diff_ops,       \* commands applied to the two trees so far (bounded)
    diff_pc,
    \* ---- ConfigRollbackManager
    rb_snapshots,   \* self.snapshots: the index, a list of snapshots
    rb_files,       \* the contents of the snapshot files <id>.json of storage_dir
    rb_index,       \* the content of index.json
    rb_clock,       \* datetime.utcnow(), in ticks
    rb_created,     \* history: every snapshot create_snapshot returned, in order
    \* ---- ConfigBackupManager and the device behind its executor
    bk_live,        \* the device's live configuration text (its lines)
    bk_content,     \* the snapshot content files <id>.<format> on the device
    bk_meta,        \* the snapshot metadata files <id>.meta on the device
    bk_last,        \* history: the last create_snapshot call and what it returned
    bk_calls,       \* create_snapshot calls so far (the next uuid)
    \* ---- ConfigVersionManager, and the restores of both managers
    ver_files,      \* the version content files v<number>_<id>.vyos on the device
    ver_meta,       \* the version metadata files meta_<id>.json on the device
    ver_assigned,   \* history: the number of every version create_version returned, in order
    ver_calls,      \* create_version calls so far (the next uuid)
    rs_log,         \* history: the state-changing commands the last call sent to the executor
    rs_result,      \* history: the last restore or delete call and what it returned
    rs_ops,         \* calls made so far (bounded)
    dev_rejects,    \* the lines the device refuses to apply
    \* ---- ConfigVersionManager.create_version calls running concurrently on one store
    cv_files,       \* the version content files of the store
    cv_meta,        \* the version metadata files of the store
    cv_pc,          \* where each caller is in create_version
    cv_local,       \* the version_id and version_num of each caller
    cv_calls,       \* create_version calls started so far (the next uuid)
    \* ---- restores running concurrently against one device
    cr_pc,          \* where each caller is in its restore
    cr_call,        \* the restore each caller runs: its kind and the stored lines it has read
    cr_next,        \* the index of the next stored line of each caller
    cr_log,         \* the commands the device received, in order, each with its caller
    \* ---- ConfigRollbackManager.__init__ over a storage directory
    ld_file,        \* index.json as __init__ finds it
    ld_state,       \* the manager: "none" before __init__, then "ready", or "raised"
    ld_loaded,      \* history: self.snapshots when __init__ returned
    \* ---- VyOSConfigValidator: the rule set and one lookup / validation
    val_rules,      \* self.rules: sequence of [path, rule] in insertion order
    val_path,       \* the path of the last _find_matching_rule call
    val_found,      \* what that call returned
    val_pc,         \* "idle" or "found"
    \* ---- VyOSConfigValidator._validate_value: one value against one rule
    vv_value,       \* the value handed to _validate_value
    vv_rule,        \* the rule handed to _validate_value
    vv_errors,      \* the error types of the list it returned
    vv_pc,          \* "ready" or "validated"
    \* ---- VyOSCommandExecutor.execute: one call and its retry loop
    ex_pc,          \* "idle", "loop" (at the while test), "returned", "raised"
    ex_retries,     \* retries of the call
    ex_raise_on_error,\* raise_on_error of the call
    ex_retry_count, \* retry_count
    ex_last_error,  \* last_error
    ex_outcomes,    \* what each attempt met, in order
    ex_sleeps,      \* the delays slept, in order
    ex_result,      \* the CommandResult returned
    \* ---- ConfigRollbackManager.list_snapshots: the last call
    rl_pc,          \* "idle" or "listed"
    rl_limit,       \* its limit argument
    rl_before,      \* self.snapshots when it was called
    rl_after,       \* self.snapshots when it returned
    rl_listed,      \* the list it returned
    \* ---- VyOSCommandExecutor.configure: the last call
    cf_pc,          \* "idle" or "done"
    cf_commands,    \* the commands argument, as a list
    cf_statuses,    \* the status execute returned for each command
    cf_log,         \* the command lines handed to execute, in order
    cf_result,      \* the CommandResult returned
    \* ---- ConfigRollbackManager: one create_snapshot of the tree and one restore_snapshot
    rt_pc,          \* "idle", "created" or "restored"
    rt_id,          \* the id create_snapshot returned
    rt_dict,        \* config.to_dict() when the snapshot was taken
    rt_restored     \* the tree restore_snapshot returned

treeVars == <<config_root, prev_root, last_cmd, ops>>
dictVars == <<dict_in, dict_tree, dict_out, dict_pc>>
parseVars == <<stmts, config_text, parse_pc>>
diffVars == <<old_config, new_config, diff, diff_rev, diff_ops, diff_pc>>
rbVars == <<rb_snapshots, rb_files, rb_index, rb_clock, rb_created>>
bkVars == <<bk_live, bk_content, bk_meta, bk_last, bk_calls>>
rsVars == <<ver_files, ver_meta, ver_assigned, ver_calls, rs_log, rs_result, rs_ops, dev_rejects>>
cvVars == <<cv_files, cv_meta, cv_pc, cv_local, cv_calls>>
crVars == <<cr_pc, cr_call, cr_next, cr_log>>
ldVars == <<ld_file, ld_state, ld_loaded>>
valVars == <<val_rules, val_path, val_found, val_pc>>
vvVars == <<vv_value, vv_rule, vv_errors, vv_pc>>
exVars == <<ex_pc, ex_retries, ex_raise_on_error, ex_retry_count, ex_last_error, ex_outcomes, ex_sleeps, ex_result>>
rlVars == <<rl_pc, rl_limit, rl_before, rl_after, rl_listed>>
cfVars == <<cf_pc, cf_commands, cf_statuses, cf_log, cf_result>>
rtVars == <<rt_pc, rt_id, rt_dict, rt_restored>>
vars == <<treeVars, dictVars, parseVars, diffVars, rbVars, bkVars, rsVars, cvVars, crVars, ldVars, valVars, vvVars, exVars, rlVars, cfVars, rtVars>>

\* what the actions on one group of variables leave alone
notTreeVars == <<dictVars, parseVars, diffVars, rbVars, bkVars, rsVars, cvVars, crVars, ldVars, valVars, vvVars, exVars, rlVars, cfVars, rtVars>>
notParseVars == <<prev_root, last_cmd, ops, dictVars, diffVars, rbVars, bkVars, rsVars, cvVars, crVars, ldVars, valVars, vvVars, exVars, rlVars, cfVars, rtVars>>
notDictVars == <<treeVars, parseVars, diffVars, rbVars, bkVars, rsVars, cvVars, crVars, ldVars, valVars, vvVars, exVars, rlVars, cfVars, rtVars>>
notDiffVars == <<treeVars, dictVars, parseVars, rbVars, bkVars, rsVars, cvVars, crVars, ldVars, valVars, vvVars, exVars, rlVars, cfVars, rtVars>>
notRbVars == <<treeVars, dictVars, parseVars, diffVars, bkVars, rsVars, cvVars, crVars, ldVars, valVars, vvVars, exVars, rlVars, cfVars, rtVars>>
notBkVars == <<treeVars, dictVars, parseVars, diffVars, rbVars, rsVars, cvVars, crVars, ldVars, valVars, vvVars, exVars, rlVars, cfVars, rtVars>>
notRsVars == <<treeVars, dictVars, parseVars, diffVars, rbVars, bkVars, cvVars, crVars, ldVars, valVars, vvVars, exVars, rlVars, cfVars, rtVars>>
notBkRsVars == <<treeVars, dictVars, parseVars, diffVars, rbVars, cvVars, crVars, ldVars, valVars, vvVars, exVars, rlVars, cfVars, rtVars>>
notDictParseVars == <<treeVars, diffVars, rbVars, bkVars, rsVars, cvVars, crVars, ldVars, valVars, vvVars, exVars, rlVars, cfVars, rtVars>>
notCvVars == <<treeVars, dictVars, parseVars, diffVars, rbVars, bkVars, rsVars, crVars, ldVars, valVars, vvVars, exVars, rlVars, cfVars, rtVars>>
notCrVars == <<treeVars, dictVars, parseVars, diffVars, rbVars, bkVars, rsVars, cvVars, ldVars, valVars, vvVars, exVars, rlVars, cfVars, rtVars>>
notRbLdVars == <<treeVars, dictVars, parseVars, diffVars, bkVars, rsVars, cvVars, crVars, valVars, vvVars, exVars, rlVars, cfVars, rtVars>>
notLdVars == <<treeVars, dictVars, parseVars, diffVars, rbVars, bkVars, rsVars, cvVars, crVars, valVars, vvVars, exVars, rlVars, cfVars, rtVars>>
notValVars == <<treeVars, dictVars, parseVars, diffVars, rbVars, bkVars, rsVars, cvVars, crVars, ldVars, vvVars, exVars, rlVars, cfVars, rtVars>>
notVvVars == <<treeVars, dictVars, parseVars, diffVars, rbVars, bkVars, rsVars, cvVars, crVars, ldVars, valVars, exVars, rlVars, cfVars, rtVars>>
notExVars == <<treeVars, dictVars, parseVars, diffVars, rbVars, bkVars, rsVars, cvVars, crVars, ldVars, valVars, vvVars, rlVars, cfVars, rtVars>>
notRlVars == <<treeVars, dictVars, parseVars, diffVars, rbVars, bkVars, rsVars, cvVars, crVars, ldVars, valVars, vvVars, exVars, cfVars, rtVars>>
notCfVars == <<treeVars, dictVars, parseVars, diffVars, rbVars, bkVars, rsVars, cvVars, crVars, ldVars, valVars, vvVars, exVars, rlVars, rtVars>>
notRtVars == <<treeVars, dictVars, parseVars, diffVars, rbVars, bkVars, rsVars, cvVars, crVars, ldVars, valVars, vvVars, exVars, rlVars, cfVars>>

(***************************************************************************)
(* Bounds                                                                  *)
(***************************************************************************)
MaxOps == 3         \* operations applied to one tree
MaxStmts == 2       \* set statements in one configuration text
MaxDiffOps == 3     \* commands applied to the two trees that are compared
MaxSnapshots == 2   \* the manager's max_snapshots
MaxCreates == 4     \* create_snapshot calls on one manager
MaxClock == 3       \* last tick of the clock
TicksPerSecond == 2 \* clock ticks in one second of the snapshot id's timestamp
MaxRecords == 2     \* records in the index file a manager is constructed over
MaxBackupCalls == 2 \* ConfigBackupManager.create_snapshot calls
MaxRestoreOps == 2  \* calls on the backup and version managers of one device
NumCallers == 2     \* concurrent callers of create_version
MaxVersionCalls == 3 \* create_version calls started by the concurrent callers

(***************************************************************************)
(* Text                                                                     *)
(***************************************************************************)
None == <<"None">>          \* Python's None (no text is this sequence)
DictMark == <<"{}">>        \* marks a nested dict in the entry set of a dict
NoNode == <<"NoNode">>      \* get_child's None

Names == {<<"a">>, <<"b">>}
Values == {<<"v">>, <<"w">>}
CommentText == <<"c">>

IsPrefix(p, q) == Len(p) <= Len(q) /\ SubSeq(q, 1, Len(p)) = p
IsStrictPrefix(p, q) == Len(p) < Len(q) /\ SubSeq(q, 1, Len(p)) = p
Front(s) == SubSeq(s, 1, Len(s) - 1)
Last(s) == s[Len(s)]

RECURSIVE SeqRange(_)
SeqRange(s) == IF s = <<>> THEN {} ELSE {Head(s)} \cup SeqRange(Tail(s))

(***************************************************************************)
(* ConfigNode                                                               *)
(***************************************************************************)
NewNode == [value |-> None, children |-> <<>>, deleted |-> FALSE, comment |-> None]

EmptyTree == (<<>> :> NewNode)

HasNode(t, p) == p \in DOMAIN t

\* the paths of a node's children, in the children dict's order
ChildSeq(t, p) == [i \in 1..Len(t[p].children) |-> Append(p, t[p].children[i])]
Children(t, p) == SeqRange(ChildSeq(t, p))

\* get_child(*path_parts) called on the node at p
get_child(t, p, parts) == IF HasNode(t, p \o parts) THEN p \o parts ELSE NoNode

\* add_child(name) called on the node at p: the tree afterwards
add_child(t, p, name) ==
    IF HasNode(t, Append(p, name))
    THEN t
    ELSE (Append(p, name) :> NewNode)
         @@ [t EXCEPT ![p].children = Append(@, name)]

\* set_value(value) called on the node at p: the tree afterwards
set_value_undeletes(t, p, v) ==
    LET keep == {q \in DOMAIN t : ~IsStrictPrefix(p, q)}
    IN [q \in keep |-> IF q = p THEN [t[q] EXCEPT !.value = v, !.children = <<>>, !.deleted = FALSE]
                                ELSE t[q]]

set_value(t, p, v) ==
    LET keep == {q \in DOMAIN t : ~IsStrictPrefix(p, q)}
    IN [q \in keep |-> IF q = p THEN [t[q] EXCEPT !.value = v, !.children = <<>>]
                                ELSE t[q]]

\* to_dict() without the test of the tombstone flag
RECURSIVE to_dict_at_noTombstone(_, _)
to_dict_at_noTombstone(t, p) ==
    UNION { IF t[c].value /= None THEN {<<c, t[c].value>>}
            ELSE IF t[c].children /= <<>>
                 THEN {<<c, DictMark>>} \cup to_dict_at_noTombstone(t, c)
            ELSE {}
          : c \in Children(t, p) }

\* to_dict() called on the node at p; entries carry paths relative to the root
RECURSIVE to_dict_at(_, _)
to_dict_at(t, p) ==
    UNION { IF t[c].deleted THEN {}
            ELSE IF t[c].value /= None THEN {<<c, t[c].value>>}
            ELSE IF t[c].children /= <<>> THEN {<<c, DictMark>>} \cup to_dict_at(t, c)
            ELSE {}
          : c \in Children(t, p) }

to_dict(t) == to_dict_at(t, <<>>)

(***************************************************************************)
(* VyOSSyntaxParser._apply_command                                          *)
(***************************************************************************)
CommandTypes == {"set", "delete", "comment", "rename", "edit"}

ConfigCommand(type, path, value) == [command_type |-> type, path |-> path, value |-> value]

\* parse_line's None, and "no call yet" in the history
NoCommand == ConfigCommand("none", <<>>, None)

\* "for part in command.path[:-1]: node = node.add_child(part)"
RECURSIVE Navigate(_, _, _)
Navigate(t, path, i) ==
    IF i >= Len(path) THEN t
    ELSE Navigate(add_child(t, SubSeq(path, 1, i - 1), path[i]), path, i + 1)

_apply_command(t, cmd) ==
    LET nav == Navigate(t, cmd.path, 1)
        node == Front(cmd.path)
        final == cmd.path
    IN  IF cmd.path = <<>> THEN nav
        ELSE IF cmd.command_type = "set" THEN
            LET added == add_child(nav, node, Last(cmd.path))
            IN IF cmd.value /= None THEN set_value(added, final, cmd.value) ELSE added
        ELSE IF cmd.command_type = "delete" THEN
            IF HasNode(nav, final) THEN [nav EXCEPT ![final].deleted = TRUE] ELSE nav
        ELSE IF cmd.command_type = "comment" THEN
            IF HasNode(nav, final) THEN [nav EXCEPT ![final].comment = cmd.value] ELSE nav
        ELSE nav

\* the entries of a dict kept as an ordered list of <<key, value>> items
Items(d) == SeqRange(d)
Keys(d) == {e[1] : e \in Items(d)}

\* d.get(key): the value stored under key, None when there is none
Get(d, k) == IF k \in Keys(d) THEN (CHOOSE e \in Items(d) : e[1] = k)[2] ELSE None

\* d[key] = value on an insertion-ordered dict
Put(d, k, v) ==
    IF k \in Keys(d)
    THEN [i \in 1..Len(d) |-> IF d[i][1] = k THEN <<k, v>> ELSE d[i]]
    ELSE Append(d, <<k, v>>)

\* flatten(): _flatten(node, prefix) over the children that are left to visit
RECURSIVE _flatten(_, _, _, _)
_flatten(t, kids, prefix, result) ==
    IF kids = <<>> THEN result
    ELSE LET child == Head(kids)
             name == Last(child)
             full_path == IF prefix /= <<>> THEN prefix \o name ELSE name
             visited ==
                IF t[child].value /= None THEN Put(result, full_path, t[child].value)
                ELSE IF t[child].children /= <<>>
                     THEN _flatten(t, ChildSeq(t, child), full_path \o <<".">>, result)
                ELSE result
         IN _flatten(t, Tail(kids), prefix, visited)

flatten(t) == _flatten(t, ChildSeq(t, <<>>), <<>>, <<>>)

\* from_dict(data): _populate over the items of the nested dict, listed in
\* the order Python visits them (each dict's items in order, a nested dict's
\* items right after its own key)
RECURSIVE _populate(_, _)
_populate(t, items) ==
    IF items = <<>> THEN t
    ELSE LET key == Head(items)[1]
             value == Head(items)[2]
             child == add_child(t, Front(key), Last(key))
         IN _populate(IF value = DictMark THEN child ELSE set_value(child, key, value),
                      Tail(items))

from_dict(items) == _populate(EmptyTree, items)

(***************************************************************************)
(* VyOSSyntaxParser: lines of text.  The alphabet of the model has the      *)
(* space as its only whitespace character and no upper-case letter.         *)
(***************************************************************************)
IsSpace(c) == c = " "
IsQuote(c) == c = "'" \/ c = "\""

RECURSIVE lstrip(_)
lstrip(s) == IF s /= <<>> /\ IsSpace(Head(s)) THEN lstrip(Tail(s)) ELSE s
RECURSIVE rstrip(_)
rstrip(s) == IF s /= <<>> /\ IsSpace(Last(s)) THEN rstrip(Front(s)) ELSE s
strip(s) == rstrip(lstrip(s))

startswith(s, pre) == IsPrefix(pre, s)
Drop(s, n) == SubSeq(s, n + 1, Len(s))

\* str.split(): the whitespace-separated words
RECURSIVE split(_)
split(s) ==
    LET t == lstrip(s)
        stop == IF \E i \in 1..Len(t) : IsSpace(t[i])
                THEN CHOOSE i \in 1..Len(t) :
                        IsSpace(t[i]) /\ \A j \in 1..(i - 1) : ~IsSpace(t[j])
                ELSE Len(t) + 1
    IN IF t = <<>> THEN <<>> ELSE <<SubSeq(t, 1, stop - 1)>> \o split(Drop(t, stop - 1))

\* str.rsplit(" ", 1)
rsplit1(s) ==
    IF \E i \in 1..Len(s) : s[i] = " "
    THEN LET k == CHOOSE i \in 1..Len(s) :
                    s[i] = " " /\ \A j \in (i + 1)..Len(s) : s[j] /= " "
         IN <<SubSeq(s, 1, k - 1), Drop(s, k)>>
    ELSE <<s>>

NoMatch == <<"NoMatch">>

\* ^\s*<keyword>\s+(.+)$ on a stripped line: group 1, or NoMatch
MatchKeyword(line, kw) ==
    IF /\ startswith(line, kw)
       /\ Len(line) > Len(kw)
       /\ IsSpace(line[Len(kw) + 1])
       /\ lstrip(Drop(line, Len(kw))) /= <<>>
    THEN lstrip(Drop(line, Len(kw)))
    ELSE NoMatch

\* VALUE_PATTERN ^\s*([^ ]+)\s+(.+)$: <<group 1, group 2>>, or NoMatch
MatchValuePattern(s) ==
    LET t == lstrip(s)
    IN IF t /= <<>> /\ \E i \in 2..Len(t) : t[i] = " " /\ lstrip(Drop(t, i)) /= <<>>
       THEN LET k == CHOOSE i \in 2..Len(t) : t[i] = " " /\ \A j \in 1..(i - 1) : t[j] /= " "
            IN <<SubSeq(t, 1, k - 1), lstrip(Drop(t, k))>>
       ELSE NoMatch

\* _tokenize_path: the loop over the characters
RECURSIVE TokenizeFrom(_, _, _, _, _)
TokenizeFrom(rest, tokens, current_token, in_quotes, quote_char) ==
    IF rest = <<>>
    THEN IF current_token /= <<>> THEN Append(tokens, current_token) ELSE tokens
    ELSE LET char == Head(rest)
         IN IF IsQuote(char) /\ (~in_quotes \/ char = quote_char)
            THEN TokenizeFrom(Tail(rest), tokens, current_token, ~in_quotes, char)
            ELSE IF IsSpace(char) /\ ~in_quotes
            THEN TokenizeFrom(Tail(rest),
                              IF current_token /= <<>> THEN Append(tokens, current_token)
                                                       ELSE tokens,
                              <<>>, in_quotes, quote_char)
            ELSE TokenizeFrom(Tail(rest), tokens, Append(current_token, char),
                              in_quotes, quote_char)

_tokenize_path(path_str) == TokenizeFrom(path_str, <<>>, <<>>, FALSE, "")

\* _split_path_and_value: <<path, value>>
_split_path_and_value(path_str) ==
    LET match == MatchValuePattern(path_str)
        parts == rsplit1(path_str)
    IN IF match /= NoMatch THEN << <<match[1]>>, match[2] >>
       ELSE IF Len(parts) = 2 THEN <<split(parts[1]), parts[2]>>
       ELSE <<split(path_str), None>>

KwSet == <<"s", "e", "t">>
KwDelete == <<"d", "e", "l", "e", "t", "e">>
KwComment == <<"c", "o", "m", "m", "e", "n", "t">>
KwRename == <<"r", "e", "n", "a", "m", "e">>
KwEdit == <<"e", "d", "i", "t">>

LeadingSpaces(s) == Len(s) - Len(lstrip(s))

\* COMMENT_PATTERN ^\s*comment\s+(.+?)\s+(.+)$ on a stripped line:
\* <<group 1, group 2>>, or NoMatch.  The first \s+ gives spaces back when
\* only one word follows.
MatchComment(line) ==
    LET r == Drop(line, Len(KwComment))
        k == LeadingSpaces(r)
        t == lstrip(r)
        two == MatchValuePattern(t)
    IN IF ~(startswith(line, KwComment) /\ k >= 1 /\ t /= <<>>) THEN NoMatch
       ELSE IF two /= NoMatch THEN two
       ELSE IF k >= 3 THEN << <<" ">>, t >>
       ELSE NoMatch

\* RENAME_PATTERN ^\s*rename\s+(.+?)\s+to\s+(.+)$ on a stripped line, with
\* group 1 = r[j+1..e] after j leading spaces
RenameSplit(r, j, e) ==
    LET after == Drop(r, e)
        word == lstrip(after)
    IN /\ e >= j + 1 /\ e < Len(r)
       /\ IsSpace(r[e + 1])
       /\ Len(word) >= 4
       /\ word[1] = "t" /\ word[2] = "o" /\ IsSpace(word[3])

MatchRename(line) ==
    LET r == Drop(line, Len(KwRename))
        k == LeadingSpaces(r)
        starts == {j \in 1..k : \E e \in 1..Len(r) : RenameSplit(r, j, e)}
    IN IF ~(startswith(line, KwRename) /\ k >= 1 /\ starts /= {}) THEN NoMatch
       ELSE LET j == CHOOSE x \in starts : \A y \in starts : y <= x
                ends == {e \in 1..Len(r) : RenameSplit(r, j, e)}
                e == CHOOSE x \in ends : \A y \in ends : x <= y
            IN <<SubSeq(r, j + 1, e), lstrip(Drop(lstrip(Drop(r, e)), 2))>>

\* parse_line: the ConfigCommand, or NoCommand for None (the command's
\* `original` text, kept for diagnostics only, is left out)
parse_line(text) ==
    LET line == strip(text)
        set == MatchKeyword(line, KwSet)
        delete == MatchKeyword(line, KwDelete)
        comment == MatchComment(line)
        rename == MatchRename(line)
        edit == MatchKeyword(line, KwEdit)
    IN IF line = <<>> \/ Head(line) = "#" \/ Head(line) = "!" THEN NoCommand
       ELSE IF set /= NoMatch
       THEN LET pv == _split_path_and_value(strip(set))
            IN ConfigCommand("set", pv[1], pv[2])
       ELSE IF delete /= NoMatch
       THEN ConfigCommand("delete", _tokenize_path(strip(delete)), None)
       ELSE IF comment /= NoMatch
       THEN ConfigCommand("comment", _tokenize_path(strip(comment[1])), strip(comment[2]))
       ELSE IF rename /= NoMatch
       THEN ConfigCommand("rename", _tokenize_path(strip(rename[1])), strip(rename[2]))
       ELSE IF edit /= NoMatch
       THEN ConfigCommand("edit", _tokenize_path(strip(edit)), None)
       ELSE NoCommand

\* parse_config: the lines of config_text.split("\n") applied in order to a
\* fresh tree
RECURSIVE ParseLines(_, _)
ParseLines(t, lines) ==
    IF lines = <<>> THEN t
    ELSE LET command == parse_line(Head(lines))
         IN ParseLines(IF command /= NoCommand THEN _apply_command(t, command) ELSE t,
                       Tail(lines))

parse_config(lines) == ParseLines(EmptyTree, lines)

(***************************************************************************)
(* VyOSSyntaxParser.calculate_diff.  A ConfigDiff holds its three dicts as  *)
(* sets of <<key, value>> entries (all_keys is a Python set: the order of   *)
(* the entries is not fixed by the code).                                   *)
(***************************************************************************)
\* the if/elif chain without its last test: equal values count as modified
DiffClass_noEqualTest(old_value, new_value) ==
    IF old_value = None /\ new_value /= None THEN "added"
    ELSE IF old_value /= None /\ new_value = None THEN "removed"
    ELSE "modified"

\* the if/elif chain without the removed branch
DiffClass_noRemoved(old_value, new_value) ==
    IF old_value = None /\ new_value /= None THEN "added"
    ELSE IF old_value /= new_value THEN "modified"
    ELSE "same"

\* the if/elif chain on one key's two values
DiffClass(old_value, new_value) ==
    IF old_value = None /\ new_value /= None THEN "added"
    ELSE IF old_value /= None /\ new_value = None THEN "removed"
    ELSE IF old_value /= new_value THEN "modified"
    ELSE "same"

calculate_diff(old, new) ==
    LET old_flat == flatten(old)
        new_flat == flatten(new)
        all_keys == Keys(old_flat) \cup Keys(new_flat)
        Class(key) == DiffClass(Get(old_flat, key), Get(new_flat, key))
    IN [added    |-> {<<key, Get(new_flat, key)>> :
                        key \in {k \in all_keys : Class(k) = "added"}},
        removed  |-> {<<key, Get(old_flat, key)>> :
                        key \in {k \in all_keys : Class(k) = "removed"}},
        modified |-> {<<key, <<Get(old_flat, key), Get(new_flat, key)>> >> :
                        key \in {k \in all_keys : Class(k) = "modified"}}]

(***************************************************************************)
(* ConfigRollbackManager.  A snapshot is [id, timestamp, config_data]; its  *)
(* description and config_hash, which no operation reads back, are left     *)
(* out.  Time is counted in ticks, TicksPerSecond of them to the second.    *)
(***************************************************************************)
\* hashlib.md5(timestamp.encode()).hexdigest()[:6]: a digest of the second
Md5Prefix(second) == (second * 37 + 11) % 4096

\* _generate_snapshot_id at clock tick `now`: the timestamp is formatted to
\* the second, "%Y%m%d%H%M%S"
_generate_snapshot_id(now) ==
    <<"snapshot", now \div TicksPerSecond, Md5Prefix(now \div TicksPerSecond)>>

\* sorted(snapshots, key=timestamp, reverse=True): stable, newest first
RECURSIVE InsertByTime(_, _)
InsertByTime(sorted, x) ==
    IF sorted = <<>> THEN <<x>>
    ELSE IF Head(sorted).timestamp >= x.timestamp
         THEN <<Head(sorted)>> \o InsertByTime(Tail(sorted), x)
         ELSE <<x>> \o sorted

RECURSIVE SortNewestFirst(_)
SortNewestFirst(snapshots) ==
    IF snapshots = <<>> THEN <<>>
    ELSE InsertByTime(SortNewestFirst(Front(snapshots)), Last(snapshots))

NoLimit == -1

\* list_snapshots(limit)
list_snapshots(snapshots, limit) ==
    LET sorted == SortNewestFirst(snapshots)
    IN IF limit /= NoLimit /\ limit /= 0
       THEN SubSeq(sorted, 1, IF limit < Len(sorted) THEN limit ELSE Len(sorted))
       ELSE sorted

\* the files left after unlinking <id>.json for every snapshot of to_remove
Unlink(files, to_remove) ==
    LET gone == {to_remove[i].id : i \in DOMAIN to_remove}
    IN {f \in files : f.id \notin gone}

\* _save_snapshot: <id>.json written, over a file of the same name if any
_save_snapshot(files, snapshot) ==
    {f \in files : f.id /= snapshot.id} \cup {snapshot}

\* _prune_old_snapshots that keeps the first max_snapshots of the list as it
\* stands, without sorting it
_prune_old_snapshots_noSort(snapshots, files) ==
    IF Len(snapshots) <= MaxSnapshots THEN [snapshots |-> snapshots, files |-> files]
    ELSE [snapshots |-> SubSeq(snapshots, 1, MaxSnapshots),
          files |-> Unlink(files, SubSeq(snapshots, MaxSnapshots + 1, Len(snapshots)))]

\* _prune_old_snapshots: the index and the files afterwards
_prune_old_snapshots(snapshots, files) ==
    IF Len(snapshots) <= MaxSnapshots THEN [snapshots |-> snapshots, files |-> files]
    ELSE LET sorted == SortNewestFirst(snapshots)
             to_remove == SubSeq(sorted, MaxSnapshots + 1, Len(sorted))
         IN [snapshots |-> SubSeq(sorted, 1, MaxSnapshots),
             files |-> Unlink(files, to_remove)]

\* _find_snapshot: the first snapshot of the index with the id
NoSnapshot == [id |-> <<"none">>, timestamp |-> -1, config_data |-> {}]

_find_snapshot(snapshots, id) ==
    IF \E i \in DOMAIN snapshots : snapshots[i].id = id
    THEN snapshots[CHOOSE i \in DOMAIN snapshots :
                      /\ snapshots[i].id = id
                      /\ \A j \in 1..(i - 1) : snapshots[j].id /= id]
    ELSE NoSnapshot

\* delete_snapshot(snapshot_id) of ConfigRollbackManager: False when
\* _find_snapshot finds nothing; else the file is unlinked, every snapshot
\* with the id leaves the index, and True
rb_delete_snapshot(snapshots, files, snapshot_id) ==
    IF _find_snapshot(snapshots, snapshot_id) = NoSnapshot
    THEN [returned |-> FALSE, snapshots |-> snapshots, files |-> files]
    ELSE [returned |-> TRUE,
          snapshots |-> SelectSeq(snapshots, LAMBDA x : x.id /= snapshot_id),
          files |-> {f \in files : f.id /= snapshot_id}]

\* index.json: the shape of its top-level value and, for an object, the
\* records under "snapshots"
AbsentFile == [shape |-> "absent", records |-> <<>>]

\* what one record of the index does to ConfigSnapshot.from_dict:
\*   "good"           id and a valid timestamp: a snapshot
\*   "missing_field"  no "id" or no "timestamp": data[...] raises KeyError
\*   "bad_timestamp"  datetime.fromisoformat raises ValueError
\*   "not_object"     a record that is no dict: data["id"] raises TypeError
RecordKinds == {"good", "missing_field", "bad_timestamp", "not_object"}

\* the snapshot a good record holds
StoredSnapshot == [id |-> _generate_snapshot_id(0), timestamp |-> 0, config_data |-> {}]

\* the for loop of _load_index over the records
RECURSIVE LoadRecords(_, _)
LoadRecords(records, snapshots) ==
    IF records = <<>> THEN [raised |-> "", snapshots |-> snapshots]
    ELSE IF Head(records) = "good"
         THEN LoadRecords(Tail(records), Append(snapshots, StoredSnapshot))
    ELSE IF Head(records) = "missing_field" THEN [raised |-> "KeyError", snapshots |-> snapshots]
    ELSE IF Head(records) = "bad_timestamp" THEN [raised |-> "ValueError", snapshots |-> snapshots]
    ELSE [raised |-> "TypeError", snapshots |-> snapshots]

\* _load_index: self.snapshots afterwards, and the exception that leaves it
\* ("" if none); only json.JSONDecodeError and KeyError are caught
_load_index(file) ==
    LET loaded == IF file.shape = "absent" THEN [raised |-> "", snapshots |-> <<>>]
                  ELSE IF file.shape = "invalid_json"
                       THEN [raised |-> "JSONDecodeError", snapshots |-> <<>>]
                  ELSE IF file.shape = "not_object"
                       THEN [raised |-> "AttributeError", snapshots |-> <<>>]
                  ELSE IF file.shape = "snapshots_not_list"
                       THEN [raised |-> "TypeError", snapshots |-> <<>>]
                  ELSE LoadRecords(file.records, <<>>)
    IN IF loaded.raised \in {"JSONDecodeError", "KeyError"}
       THEN [raised |-> "", snapshots |-> <<>>]
       ELSE loaded

(***************************************************************************)
(* ConfigBackupManager.create_snapshot over VyOSCommandExecutor.execute.    *)
(* execute() returns a CommandResult and raises nothing: every exception of *)
(* an attempt is caught in its retry loop.  An outcome is                   *)
(*   "success"  exit code 0, the command's output in stdout                 *)
(*   "failed"   the command ran and ended with a non-zero exit code         *)
(*   "error"    every attempt raised or timed out: status error, exit -1    *)
(*   "garbled"  exit code 0 with an stdout that is not the expected text    *)
(* The snapshot format is the default one (vyos), which _format_config      *)
(* returns unchanged; the checksum and version_info are left out.           *)
(***************************************************************************)
ExecOutcomes == {"success", "failed", "error"}

\* CommandResult of one execute() call; stdout is a sequence, empty for ""
CommandResult(outcome, stdout) ==
    [status |-> outcome,
     stdout |-> IF outcome \in {"success", "garbled"} THEN stdout ELSE <<>>,
     exit_code |-> IF outcome \in {"success", "garbled"} THEN 0
                   ELSE IF outcome = "failed" THEN 1 ELSE -1]

\* "int(size_result.stdout.strip().split()[0]) if size_result.stdout else 0":
\* int() raises ValueError on a first word that is not a number
ParseSize(size_result) ==
    IF size_result.stdout = <<>> THEN [raises |-> FALSE, size |-> 0]
    ELSE IF size_result.status = "garbled" THEN [raises |-> TRUE, size |-> 0]
    ELSE [raises |-> FALSE, size |-> size_result.stdout[1]]

\* create_snapshot with the outcomes of its four execute() calls: what it
\* returns and the files on the device afterwards
create_snapshot(id, live, content, meta, fetch, write, wc, save) ==
    LET result == CommandResult(fetch, live)
        config_content == result.stdout
        formatted_config == config_content
        written == write = "success"
        content1 == IF written THEN content \cup {[id |-> id, text |-> formatted_config]}
                    ELSE content
        size_result == CommandResult(wc, <<Len(formatted_config)>>)
        parsed == ParseSize(size_result)
        snapshot == [id |-> id, status |-> "completed", size |-> parsed.size]
        meta1 == IF save = "success" THEN meta \cup {snapshot} ELSE meta
    IN IF parsed.raises
       THEN [snapshot |-> [id |-> id, status |-> "failed", size |-> 0],
             raised |-> FALSE, content |-> content1, meta |-> meta]
       ELSE [snapshot |-> snapshot,
             raised |-> FALSE, content |-> content1, meta |-> meta1]

(***************************************************************************)
(* Lookup, deletion and restore of ConfigBackupManager.  The lines of a     *)
(* stored text are kept stripped; a command the manager sends is recorded   *)
(* as [cmd, line, id].  Reading commands (ls, cat) are not recorded.        *)
(***************************************************************************)
Cmd(c, line, id) == [cmd |-> c, line |-> line, id |-> id]

CommentLines == {"# saved"}

\* "if line and not line.startswith('#')"
IsConfigLine(line) == line /= "" /\ line \notin CommentLines

NoMeta == [id |-> 0, status |-> "none", size |-> 0]

\* a lookup that takes any stored snapshot for the one asked for
get_snapshot_anyId(meta, snapshot_id) ==
    IF meta /= {} THEN CHOOSE m \in meta : TRUE ELSE NoMeta

\* get_snapshot(snapshot_id): a search of list_snapshots(), which reads the
\* .meta files
get_snapshot(meta, snapshot_id) ==
    IF \E m \in meta : m.id = snapshot_id
    THEN CHOOSE m \in meta : m.id = snapshot_id
    ELSE NoMeta

\* "cat <file>": the stored text, empty when there is no such file
ReadContent(content, id) ==
    IF \E c \in content : c.id = id
    THEN (CHOOSE c \in content : c.id = id).text
    ELSE <<>>

\* delete_snapshot(snapshot_id): "rm -f <id>.*" and True, whatever the
\* executor answers; execute() raises nothing
delete_snapshot(snapshot_id, content, meta, rm) ==
    [returned |-> TRUE,
     log |-> <<Cmd("rm", "", snapshot_id)>>,
     content |-> IF rm = "success" THEN {c \in content : c.id /= snapshot_id} ELSE content,
     meta |-> IF rm = "success" THEN {m \in meta : m.id /= snapshot_id} ELSE meta]

RestoreResult(success, message, line) ==
    [success |-> success, message |-> message, line |-> line]

\* the loop "for line in config.split('\n')" of restore_from_snapshot: the
\* commands it sends, and the line the device rejected ("" if none)
RECURSIVE ApplyLines(_, _)
ApplyLines(lines, rejects) ==
    IF lines = <<>> THEN [log |-> <<>>, failed |-> ""]
    ELSE IF ~IsConfigLine(Head(lines)) THEN ApplyLines(Tail(lines), rejects)
    ELSE IF Head(lines) \in rejects
         THEN [log |-> <<Cmd("set", Head(lines), 0), Cmd("discard", "", 0), Cmd("exit", "", 0)>>,
               failed |-> Head(lines)]
         ELSE LET rest == ApplyLines(Tail(lines), rejects)
              IN [log |-> <<Cmd("set", Head(lines), 0)>> \o rest.log, failed |-> rest.failed]

\* "await self.create_snapshot(...)": create_snapshot is a plain def that
\* returns a ConfigSnapshot, and awaiting that object raises TypeError
AwaitOfSnapshotRaises == TRUE

\* restore_from_snapshot(snapshot_id, dry_run); safety_id is the uuid of the
\* safety snapshot, the outcomes are those of its execute() calls
restore_from_snapshot(snapshot_id, dry_run, live, content, meta, rejects, safety_id, fetch, write, wc, save, configure, commit) ==
    LET snapshot == get_snapshot(meta, snapshot_id)
        config == ReadContent(content, snapshot_id)
        safety == create_snapshot(safety_id, live, content, meta, fetch, write, wc, save)
        safety_log == <<Cmd("write", "", safety_id)>>
                      \o (IF safety.snapshot.status = "completed"
                          THEN <<Cmd("write_meta", "", safety_id)>> ELSE <<>>)
        applied == ApplyLines(config, rejects)
        same(result, log) == [result |-> result, log |-> log, content |-> content,
                              meta |-> meta, created |-> FALSE]
        after(result, log) == [result |-> result, log |-> safety_log \o log,
                               content |-> safety.content, meta |-> safety.meta,
                               created |-> TRUE]
    IN IF snapshot = NoMeta THEN same(RestoreResult(FALSE, "Snapshot not found", ""), <<>>)
       ELSE IF dry_run THEN same(RestoreResult(TRUE, "Dry run successful", ""), <<>>)
       ELSE IF config = <<>>
            THEN same(RestoreResult(FALSE, "Failed to read snapshot content", ""), <<>>)
       ELSE IF AwaitOfSnapshotRaises
            THEN after(RestoreResult(FALSE, "TypeError", ""), <<>>)
       ELSE IF configure /= "success"
            THEN after(RestoreResult(FALSE, "Failed to enter configuration mode", ""),
                       <<Cmd("configure", "", 0), Cmd("discard", "", 0), Cmd("exit", "", 0)>>)
       ELSE IF applied.failed /= ""
            THEN after(RestoreResult(FALSE, "Failed to apply command", applied.failed),
                       <<Cmd("configure", "", 0)>> \o applied.log)
       ELSE IF commit /= "success"
            THEN after(RestoreResult(FALSE, "Failed to commit configuration", ""),
                       <<Cmd("configure", "", 0)>> \o applied.log
                       \o <<Cmd("commit", "", 0), Cmd("discard", "", 0), Cmd("exit", "", 0)>>)
       ELSE after(RestoreResult(TRUE, "Configuration restored successfully", ""),
                  <<Cmd("configure", "", 0)>> \o applied.log
                  \o <<Cmd("commit", "", 0), Cmd("exit", "", 0), Cmd("save", "", 0)>>)

(***************************************************************************)
(* ConfigVersionManager.  A metadata file is [id, version]; a content file  *)
(* v<version>_<id>.vyos is [id, version, text].                             *)
(***************************************************************************)
\* max([v.version for v in versions], default=0)
MaxVersion(meta) ==
    IF meta = {} THEN 0
    ELSE CHOOSE n \in {m.version : m \in meta} : \A m \in meta : m.version <= n

NoVersion == [id |-> 0, version |-> 0]

\* get_version(version_id): a search of list_versions(), which reads the
\* meta_*.json files
get_version(meta, version_id) ==
    IF \E m \in meta : m.id = version_id
    THEN CHOOSE m \in meta : m.id = version_id
    ELSE NoVersion

\* create_version(name) with the outcomes of its execute() calls: the
\* version it returns, or raised when int() fails on the size
create_version(version_id, live, files, meta, fetch, write, wc, save) ==
    LET version_num == MaxVersion(meta) + 1
        config == CommandResult(fetch, live).stdout
        files1 == IF write = "success"
                  THEN files \cup {[id |-> version_id, version |-> version_num, text |-> config]}
                  ELSE files
        parsed == ParseSize(CommandResult(wc, <<Len(config)>>))
        version == [id |-> version_id, version |-> version_num]
    IN IF parsed.raises
       THEN [raised |-> TRUE, version |-> NoVersion, files |-> files1, meta |-> meta,
             log |-> <<Cmd("write", "", version_id)>>]
       ELSE [raised |-> FALSE, version |-> version, files |-> files1,
             meta |-> IF save = "success" THEN meta \cup {version} ELSE meta,
             log |-> <<Cmd("write", "", version_id), Cmd("write_meta", "", version_id)>>]

\* "cat v<version>_<id>.vyos": the stored text, empty when there is no file
ReadVersion(files, v) ==
    IF \E f \in files : f.id = v.id /\ f.version = v.version
    THEN (CHOOSE f \in files : f.id = v.id /\ f.version = v.version).text
    ELSE <<>>

\* delete_version(version_id): two "rm -f" and True when list_versions()
\* holds the id, False otherwise
delete_version(version_id, files, meta, rm_file, rm_meta) ==
    LET v == get_version(meta, version_id)
    IN IF v = NoVersion
       THEN [returned |-> FALSE, log |-> <<>>, files |-> files, meta |-> meta]
       ELSE [returned |-> TRUE,
             log |-> <<Cmd("rm", "", version_id), Cmd("rm_meta", "", version_id)>>,
             files |-> IF rm_file = "success"
                       THEN {f \in files : ~(f.id = version_id /\ f.version = v.version)}
                       ELSE files,
             meta |-> IF rm_meta = "success" THEN {m \in meta : m.id /= version_id} ELSE meta]

\* the loop of restore_version: one execute() of the four-line script
\* "configure / set <line> / commit / exit" per line, its result not looked at
RECURSIVE ApplyScripts(_)
ApplyScripts(lines) ==
    IF lines = <<>> THEN <<>>
    ELSE IF ~IsConfigLine(Head(lines)) THEN ApplyScripts(Tail(lines))
    ELSE <<Cmd("configure_set_commit_exit", Head(lines), 0)>> \o ApplyScripts(Tail(lines))

\* restore_version(version_id, dry_run); safety_id is the uuid of the
\* pre-restore version, the outcomes are those of its execute() calls
restore_version(version_id, dry_run, live, files, meta, safety_id, fetch, write, wc, save) ==
    LET version == get_version(meta, version_id)
        text == ReadVersion(files, version)
        safety == create_version(safety_id, live, files, meta, fetch, write, wc, save)
        same(result, log) == [result |-> result, log |-> log, files |-> files,
                              meta |-> meta, created |-> FALSE, version |-> NoVersion]
        after(result, log) == [result |-> result, log |-> safety.log \o log,
                               files |-> safety.files, meta |-> safety.meta,
                               created |-> TRUE, version |-> safety.version]
    IN IF version = NoVersion THEN same(RestoreResult(FALSE, "Version not found", ""), <<>>)
       ELSE IF dry_run THEN same(RestoreResult(TRUE, "Dry run successful", ""), <<>>)
       ELSE IF text = <<>>
            THEN same(RestoreResult(FALSE, "Failed to read version content", ""), <<>>)
       ELSE IF safety.raised THEN after(RestoreResult(FALSE, "ValueError", ""), <<>>)
       ELSE after(RestoreResult(TRUE, "Configuration version restored successfully", ""),
                  ApplyScripts(text) \o <<Cmd("save", "", 0)>>)

(***************************************************************************)
(* Spec: one parser tree under any sequence of ConfigNode calls and of      *)
(* commands applied through _apply_command                                  *)
(***************************************************************************)
\* the command paths: the empty path, the top-level names and the names one
\* level below them
CommandPaths == {<<>>} \cup {<<n>> : n \in Names} \cup {<<n, m>> : n, m \in Names}

Commands ==
    {ConfigCommand("set", p, v) : p \in CommandPaths, v \in {None} \cup Values}
    \cup {ConfigCommand("delete", p, None) : p \in CommandPaths}
    \cup {ConfigCommand("comment", p, CommentText) : p \in CommandPaths}
    \cup {ConfigCommand("rename", p, <<"b">>) : p \in CommandPaths}
    \cup {ConfigCommand("edit", p, None) : p \in CommandPaths}

TreeIdle ==
    /\ config_root = EmptyTree
    /\ prev_root = EmptyTree
    /\ last_cmd = NoCommand
    /\ ops = 0

DictIdle ==
    /\ dict_in = <<>>
    /\ dict_tree = EmptyTree
    /\ dict_out = {}
    /\ dict_pc = "idle"

ParseIdle ==
    /\ stmts = <<>>
    /\ config_text = <<>>
    /\ parse_pc = "idle"

EmptyDiff == [added |-> {}, removed |-> {}, modified |-> {}]

DiffIdle ==
    /\ old_config = EmptyTree
    /\ new_config = EmptyTree
    /\ diff = EmptyDiff
    /\ diff_rev = EmptyDiff
    /\ diff_ops = 0
    /\ diff_pc = "idle"

RbIdle ==
    /\ rb_snapshots = <<>>
    /\ rb_files = {}
    /\ rb_index = <<>>
    /\ rb_clock = 0
    /\ rb_created = <<>>

(***************************************************************************)
(* config_validator.py: VyOSConfigValidator                                 *)
(***************************************************************************)
NoRule == "None"

\* str.split("."): the pieces between the dots, empty pieces kept
RECURSIVE split_dot(_)
split_dot(s) ==
    IF \E i \in 1..Len(s) : s[i] = "."
    THEN LET stop == CHOOSE i \in 1..Len(s) : s[i] = "." /\ \A j \in 1..(i - 1) : s[j] /= "."
         IN <<SubSeq(s, 1, stop - 1)>> \o split_dot(Drop(s, stop))
    ELSE <<s>>

\* the loop over zip(pattern_parts, path_parts)
RECURSIVE ZipMatches(_, _)
ZipMatches(pattern_parts, path_parts) ==
    IF pattern_parts = <<>> \/ path_parts = <<>> THEN TRUE
    ELSE IF Head(pattern_parts) = <<"*">> THEN ZipMatches(Tail(pattern_parts), Tail(path_parts))
    ELSE IF Head(pattern_parts) /= Head(path_parts) THEN FALSE
    ELSE ZipMatches(Tail(pattern_parts), Tail(path_parts))

_path_matches_noLengthTest(pattern, path) == ZipMatches(split_dot(pattern), split_dot(path))

_path_matches(pattern, path) ==
    LET pattern_parts == split_dot(pattern)
        path_parts == split_dot(path)
    IN IF Len(pattern_parts) /= Len(path_parts) THEN FALSE
       ELSE ZipMatches(pattern_parts, path_parts)

_find_matching_rule(rules, path) ==
    IF \E i \in DOMAIN rules : rules[i].path = path
    THEN rules[CHOOSE i \in DOMAIN rules : rules[i].path = path].rule
    ELSE LET hits == {i \in DOMAIN rules : _path_matches(rules[i].path, path)}
         IN IF hits = {} THEN NoRule
            ELSE rules[CHOOSE i \in hits : \A j \in hits : i <= j].rule

\* self.rules[path] = rule on an insertion-ordered dict: an existing key keeps
\* its position, a new key goes last
add_rule(rules, path, rule) ==
    IF \E i \in DOMAIN rules : rules[i].path = path
    THEN [i \in DOMAIN rules |-> IF rules[i].path = path THEN [path |-> path, rule |-> rule] ELSE rules[i]]
    ELSE Append(rules, [path |-> path, rule |-> rule])

remove_rule(rules, path) == SelectSeq(rules, LAMBDA e : e.path /= path)

\* Python values: None, str, int, float, bool.  s holds the characters of a str,
\* n the number of an int or float, and 1 / 0 for True / False
NoValue == [t |-> "none", s |-> <<>>, n |-> 0]
StrValue(s) == [t |-> "str", s |-> s, n |-> 0]
IntValue(n) == [t |-> "int", s |-> <<>>, n |-> n]
FloatValue(n) == [t |-> "float", s |-> <<>>, n |-> n]
BoolValue(b) == [t |-> "bool", s |-> <<>>, n |-> IF b THEN 1 ELSE 0]

\* isinstance(value, (int, float)); bool is a subclass of int
IsNumber(v) == v.t \in {"int", "float", "bool"}

\* a == b of Python: numbers compare by value across int, float and bool
PyEq(a, b) ==
    IF IsNumber(a) /\ IsNumber(b) THEN a.n = b.n
    ELSE a.t = b.t /\ a.s = b.s

Digits == <<"0", "1", "2", "3", "4", "5", "6", "7", "8", "9">>

IsDigit(c) == \E i \in DOMAIN Digits : Digits[i] = c

DigitOf(c) == (CHOOSE i \in DOMAIN Digits : Digits[i] = c) - 1

RECURSIVE ParseDigits(_, _)
ParseDigits(s, acc) ==
    IF s = <<>> THEN acc ELSE ParseDigits(Tail(s), 10 * acc + DigitOf(Head(s)))

RECURSIVE IntStr(_)
IntStr(n) == IF n < 10 THEN <<Digits[n + 1]>> ELSE IntStr(n \div 10) \o <<Digits[(n % 10) + 1]>>

\* the literal of a number: digits only (signs, blanks and underscores are
\* not among the characters of the values drawn)
IsNumeral(s) == s /= <<>> /\ \A i \in DOMAIN s : IsDigit(s[i])

\* str(value)
PyStr(v) ==
    CASE v.t = "str" -> v.s
      [] v.t = "int" -> IntStr(v.n)
      [] v.t = "float" -> IntStr(v.n) \o <<".", "0">>
      [] v.t = "bool" -> IF v.n = 1 THEN <<"T", "r", "u", "e">> ELSE <<"F", "a", "l", "s", "e">>
      [] OTHER -> <<"N", "o", "n", "e">>

DataTypes == {"None", "int", "float", "bool", "str"}

\* the try block: [raises, value]
Coerce(data_type, value) ==
    CASE data_type = "int" ->
            IF value.t = "str"
            THEN IF IsNumeral(value.s) THEN [raises |-> FALSE, value |-> IntValue(ParseDigits(value.s, 0))]
                 ELSE [raises |-> TRUE, value |-> value]
            ELSE [raises |-> FALSE, value |-> IntValue(value.n)]
      [] data_type = "float" ->
            IF value.t = "str"
            THEN IF IsNumeral(value.s) THEN [raises |-> FALSE, value |-> FloatValue(ParseDigits(value.s, 0))]
                 ELSE [raises |-> TRUE, value |-> value]
            ELSE [raises |-> FALSE, value |-> FloatValue(value.n)]
      [] data_type = "bool" ->
            [raises |-> FALSE, value |-> BoolValue(IF value.t = "str" THEN value.s /= <<>> ELSE value.n /= 0)]
      [] data_type = "str" -> [raises |-> FALSE, value |-> StrValue(PyStr(value))]
      [] OTHER -> [raises |-> FALSE, value |-> value]

NoBound == -1

NoList == <<[t |-> "nolist", s |-> <<>>, n |-> 0]>>

NoPattern == "None"

\* re.match(pattern, text) for the patterns of the rules drawn
ReMatch(pattern, text) ==
    CASE pattern = "^\\d+$" -> IsNumeral(text)
      [] pattern = "^[a-z]+$" -> text /= <<>> /\ \A i \in DOMAIN text : text[i] \in {"v", "w", "x"}
      [] OTHER -> FALSE

NoValidator == "None"

\* what a custom validator does with the value: returns True, returns False,
\* returns a truthy object that is not True, or raises
CustomValidators == {"returns_true", "returns_false", "returns_one", "raises"}

ErrorsIf(cond, error_type) == IF cond THEN <<error_type>> ELSE <<>>

\* the checks after the coercion, on the coerced value
Checks(v, rule) ==
    ErrorsIf(rule.min_value /= NoBound /\ IsNumber(v) /\ v.n < rule.min_value, "range")
    \o ErrorsIf(rule.max_value /= NoBound /\ IsNumber(v) /\ v.n > rule.max_value, "range")
    \o ErrorsIf(rule.allowed_values /= NoList
                /\ ~\E i \in DOMAIN rule.allowed_values : PyEq(rule.allowed_values[i], v),
                "invalid_value")
    \o ErrorsIf(rule.pattern /= NoPattern /\ ~ReMatch(rule.pattern, PyStr(v)), "pattern")
    \o ErrorsIf(rule.custom_validator /= NoValidator /\ rule.custom_validator /= "returns_true",
                "custom")

_validate_value_noEarlyReturn(value, rule) ==
    IF rule.required /\ value = NoValue THEN <<"required">>
    ELSE IF value = NoValue THEN <<>>
    ELSE ErrorsIf(Coerce(rule.data_type, value).raises, "invalid_type") \o Checks(value, rule)

_validate_value(value, rule) ==
    IF rule.required /\ value = NoValue THEN <<"required">>
    ELSE IF value = NoValue THEN <<>>
    ELSE IF Coerce(rule.data_type, value).raises THEN <<"invalid_type">>
    ELSE Checks(Coerce(rule.data_type, value).value, rule)

(***************************************************************************)
(* vyos_command.py: VyOSCommandExecutor.execute                             *)
(***************************************************************************)
NoResult == [status |-> "None", exit_code |-> 0, stderr |-> "None", retry_count |-> 0]

\* what one pass through the try block meets: the command exits with 0, exits
\* with another code, the transport raises, or the timeout is raised
AttemptOutcomes == {"exit_zero", "exit_nonzero", "exception", "timeout"}

RECURSIVE Pow2(_)
Pow2(k) == IF k = 0 THEN 1 ELSE 2 * Pow2(k - 1)

Backoff_doubling(retry_count) == Pow2(retry_count)

\* delay = min(2 ** retry_count, 10)
Backoff(retry_count) == IF Pow2(retry_count) < 10 THEN Pow2(retry_count) ELSE 10

\* the except branches are entered: the body raised, or line 130 raised
\* RuntimeError inside the try
EntersExcept(outcome, raise_on_error) ==
    \/ outcome \in {"exception", "timeout"}
    \/ outcome = "exit_nonzero" /\ raise_on_error

LastErrorOf(outcome) ==
    CASE outcome = "timeout" -> "CommandTimeoutError"
      [] outcome = "exit_nonzero" -> "RuntimeError: Command failed"
      [] OTHER -> "Exception"

AttemptResult(outcome, retry_count) ==
    [status |-> IF outcome = "exit_zero" THEN "success" ELSE "failed",
     exit_code |-> IF outcome = "exit_zero" THEN 0 ELSE 1,
     stderr |-> "stderr_text",
     retry_count |-> retry_count]

ExhaustedResult(last_error, retry_count) ==
    [status |-> "error",
     exit_code |-> -1,
     stderr |-> IF last_error /= "None" THEN last_error ELSE "Unknown error",
     retry_count |-> retry_count]

NoCall == [called |-> FALSE]

BkIdle ==
    /\ bk_live = <<>>
    /\ bk_content = {}
    /\ bk_meta = {}
    /\ bk_last = NoCall
    /\ bk_calls = 0

RsIdle ==
    /\ ver_files = {}
    /\ ver_meta = {}
    /\ ver_assigned = <<>>
    /\ ver_calls = 0
    /\ rs_log = <<>>
    /\ rs_result = NoCall
    /\ rs_ops = 0
    /\ dev_rejects = {}

CvIdle ==
    /\ cv_files = {}
    /\ cv_meta = {}
    /\ cv_pc = <<>>
    /\ cv_local = <<>>
    /\ cv_calls = 0

CrIdle ==
    /\ cr_pc = <<>>
    /\ cr_call = <<>>
    /\ cr_next = <<>>
    /\ cr_log = <<>>

LdIdle ==
    /\ ld_file = AbsentFile
    /\ ld_state = "ready"
    /\ ld_loaded = <<>>

ValIdle ==
    /\ val_rules = <<>>
    /\ val_path = <<>>
    /\ val_found = NoRule
    /\ val_pc = "idle"

VvIdle ==
    /\ vv_value = NoValue
    /\ vv_rule = NoValue
    /\ vv_errors = <<>>
    /\ vv_pc = "idle"

ExIdle ==
    /\ ex_pc = "idle"
    /\ ex_retries = 0
    /\ ex_raise_on_error = FALSE
    /\ ex_retry_count = 0
    /\ ex_last_error = "None"
    /\ ex_outcomes = <<>>
    /\ ex_sleeps = <<>>
    /\ ex_result = NoResult

RlIdle ==
    /\ rl_pc = "idle"
    /\ rl_limit = NoLimit
    /\ rl_before = <<>>
    /\ rl_after = <<>>
    /\ rl_listed = <<>>

CfIdle ==
    /\ cf_pc = "idle"
    /\ cf_commands = <<>>
    /\ cf_statuses = <<>>
    /\ cf_log = <<>>
    /\ cf_result = NoResult

RtIdle ==
    /\ rt_pc = "idle"
    /\ rt_id = NoSnapshot.id
    /\ rt_dict = <<>>
    /\ rt_restored = EmptyTree

Init == TreeIdle /\ DictIdle /\ ParseIdle /\ DiffIdle /\ RbIdle /\ BkIdle /\ RsIdle /\ CvIdle /\ CrIdle /\ LdIdle /\ ValIdle /\ VvIdle /\ ExIdle /\ RlIdle /\ CfIdle /\ RtIdle

\* parser._apply_command(command)
ApplyCommand ==
    /\ ops < MaxOps
    /\ \E cmd \in Commands :
        /\ config_root' = _apply_command(config_root, cmd)
        /\ last_cmd' = cmd
    /\ prev_root' = config_root
    /\ ops' = ops + 1
    /\ UNCHANGED notTreeVars

\* node.set_value(value) on a node of the tree
SetValue ==
    /\ ops < MaxOps
    /\ \E p \in DOMAIN config_root, v \in Values :
        /\ config_root' = set_value(config_root, p, v)
        /\ last_cmd' = ConfigCommand("set_value", p, v)
    /\ prev_root' = config_root
    /\ ops' = ops + 1
    /\ UNCHANGED notTreeVars

\* node.add_child(name) on a node of the tree
AddChild ==
    /\ ops < MaxOps
    /\ \E p \in DOMAIN config_root, n \in Names :
        /\ Append(p, n) \in CommandPaths
        /\ config_root' = add_child(config_root, p, n)
        /\ last_cmd' = ConfigCommand("add_child", p, n)
    /\ prev_root' = config_root
    /\ ops' = ops + 1
    /\ UNCHANGED notTreeVars

Next == ApplyCommand \/ SetValue \/ AddChild

Spec == Init /\ [][Next]_vars

\* structural sanity of the encoding: a node's children list names exactly
\* the nodes one segment below it
TreeWellFormed(t) ==
    /\ HasNode(t, <<>>)
    /\ \A p \in DOMAIN t :
        /\ p /= <<>> => HasNode(t, Front(p)) /\ Last(p) \in SeqRange(t[Front(p)].children)
        /\ \A i, j \in 1..Len(t[p].children) :
              i /= j => t[p].children[i] /= t[p].children[j]
        /\ \A c \in Children(t, p) : HasNode(t, c)

ConfigRootWellFormed == TreeWellFormed(config_root)

\* C1: no node of the tree has both a non-null value and a non-empty
\* children map, after any sequence of set_value / add_child calls and of
\* commands applied through _apply_command.
C1_ValueChildrenExclusive ==
    \A p \in DOMAIN config_root :
        ~(config_root[p].value /= None /\ config_root[p].children /= <<>>)

\* the case of C1: add_child has just been called on a node that holds a value
C1_AddChildOnValuedNode ==
    /\ last_cmd.command_type = "add_child"
    /\ HasNode(prev_root, last_cmd.path)
    /\ prev_root[last_cmd.path].value /= None

\* C5: a delete command whose path names an existing node tombstones that
\* node: to_dict() then has no entry at or beneath the path, every other
\* entry of to_dict() is as before, and get_child on the path still returns
\* the node, with its subtree as it was.
C5_DeleteTombstones ==
    (/\ last_cmd.command_type = "delete"
     /\ last_cmd.path /= <<>>
     /\ HasNode(prev_root, last_cmd.path))
    => LET d == last_cmd.path
       IN /\ get_child(config_root, <<>>, d) = d
          /\ config_root[d].deleted
          /\ \A e \in to_dict(config_root) : ~IsPrefix(d, e[1])
          /\ to_dict(config_root) = {e \in to_dict(prev_root) : ~IsPrefix(d, e[1])}
          /\ DOMAIN config_root = DOMAIN prev_root
          /\ \A q \in DOMAIN prev_root :
                /\ config_root[q].value = prev_root[q].value
                /\ config_root[q].children = prev_root[q].children
                /\ config_root[q].comment = prev_root[q].comment
                /\ q /= d => config_root[q].deleted = prev_root[q].deleted

\* the case of C5: the deleted node was exported before the delete, with an
\* entry beneath it, and another entry is left afterwards
C5_DeleteOfExportedNode ==
    /\ last_cmd.command_type = "delete"
    /\ last_cmd.path /= <<>>
    /\ HasNode(prev_root, last_cmd.path)
    /\ \E e \in to_dict(prev_root) : IsStrictPrefix(last_cmd.path, e[1])
    /\ to_dict(config_root) /= {}

(***************************************************************************)
(* SpecDict: from_dict on a nested map, then to_dict, or the set            *)
(* statements of flatten() parsed again                                     *)
(***************************************************************************)
\* the keys of the nested maps, in the two orders their items are listed in
DictKeyOrders ==
    { << <<"a">>, <<"a", "a">>, <<"a", "b">>, <<"b">>, <<"b", "a">>, <<"b", "b">> >>,
      << <<"b">>, <<"b", "b">>, <<"b", "a">>, <<"a">>, <<"a", "b">>, <<"a", "a">> >> }

\* a key is <<name>> or <<name, name>> with one-character names
KeyPath(k) == [i \in 1..Len(k) |-> <<k[i]>>]

Absent == <<"absent">>

RECURSIVE ItemsOf(_, _)
ItemsOf(keys, choice) ==
    IF keys = <<>> THEN <<>>
    ELSE (IF choice[Head(keys)] = Absent THEN <<>>
          ELSE << <<KeyPath(Head(keys)), choice[Head(keys)]>> >>)
         \o ItemsOf(Tail(keys), choice)

\* the nested maps: every key absent, a scalar, or a nested map (which may
\* be empty); a nested key only inside a nested map
NestedMapInputs ==
    { ItemsOf(order, choice) :
        order \in DictKeyOrders,
        choice \in { c \in [SeqRange(CHOOSE o \in DictKeyOrders : TRUE)
                              -> {Absent, DictMark} \cup Values] :
                       \A k \in DOMAIN c :
                          (Len(k) = 2 /\ c[k] /= Absent) => c[<<k[1]>>] = DictMark } }

\* one statement "set <path segments> <value>" per entry of flatten()
RECURSIVE ReplaceDots(_)
ReplaceDots(key) ==
    IF key = <<>> THEN <<>>
    ELSE <<IF Head(key) = "." THEN " " ELSE Head(key)>> \o ReplaceDots(Tail(key))

SetStatementsOf(flat) ==
    [i \in 1..Len(flat) |-> KwSet \o <<" ">> \o ReplaceDots(flat[i][1]) \o <<" ">> \o flat[i][2]]

InitDict ==
    /\ dict_in \in NestedMapInputs
    /\ dict_tree = EmptyTree
    /\ dict_out = {}
    /\ dict_pc = "start"
    /\ TreeIdle /\ ParseIdle /\ DiffIdle /\ RbIdle /\ BkIdle /\ RsIdle /\ CvIdle /\ CrIdle /\ LdIdle /\ ValIdle /\ VvIdle /\ ExIdle /\ RlIdle /\ CfIdle /\ RtIdle

\* ConfigNode.from_dict(m)
FromDict ==
    /\ dict_pc = "start"
    /\ dict_tree' = from_dict(dict_in)
    /\ dict_pc' = "built"
    /\ UNCHANGED <<dict_in, dict_out, notDictVars>>

\* .to_dict() on the tree from_dict built
ToDict ==
    /\ dict_pc = "built"
    /\ dict_out' = to_dict(dict_tree)
    /\ dict_pc' = "exported"
    /\ UNCHANGED <<dict_in, dict_tree, notDictVars>>

\* the text of set statements written from the tree's flatten()
GenerateSetText ==
    /\ dict_pc = "built"
    /\ config_text' = SetStatementsOf(flatten(dict_tree))
    /\ parse_pc' = "ready"
    /\ dict_pc' = "text"
    /\ UNCHANGED <<dict_in, dict_tree, dict_out, stmts, notDictParseVars>>

\* parser.parse_config(config_text)
ParseConfig ==
    /\ parse_pc = "ready"
    /\ config_root' = parse_config(config_text)
    /\ parse_pc' = "parsed"
    /\ UNCHANGED <<stmts, config_text, notParseVars>>

NextDict == FromDict \/ ToDict \/ GenerateSetText \/ ParseConfig

SpecDict == InitDict /\ [][NextDict]_vars

\* C3: for every finite nested map m (empty nested maps included),
\* from_dict(m).to_dict() equals m, and no node from_dict made is tombstoned.
C3_FromDictToDictRoundTrip ==
    dict_pc = "exported"
    => /\ dict_out = Items(dict_in)
       /\ \A p \in DOMAIN dict_tree : ~dict_tree[p].deleted

\* C4: for a tree t without tombstones, the set statements written from
\* t.flatten(), parsed by parse_config, give a tree with the same to_dict().
\* (Stated for the trees whose every node holds a value or has children, so
\* that flatten() and to_dict() carry the same entries.)
C4_FlattenParseInverse ==
    (/\ dict_pc = "text" /\ parse_pc = "parsed"
     /\ \A p \in DOMAIN dict_tree \ {<<>>} :
           ~dict_tree[p].deleted
           /\ (dict_tree[p].value /= None \/ dict_tree[p].children /= <<>>))
    => to_dict(config_root) = to_dict(dict_tree)

(***************************************************************************)
(* SpecParse: parse_config on a text of set statements                      *)
(***************************************************************************)
Quotes == {<<>>, <<"'">>, <<"\"">>}

\* "set s1 ... sn v", v inside the statement's quotes
SetStatements ==
    [segs : CommandPaths \ {<<>>}, value : Values, quote : Quotes]

RECURSIVE JoinWords(_)
JoinWords(words) ==
    IF words = <<>> THEN <<>>
    ELSE <<" ">> \o Head(words) \o JoinWords(Tail(words))

RenderSet(st) == KwSet \o JoinWords(st.segs) \o <<" ">> \o st.quote \o st.value \o st.quote

InitParse ==
    /\ stmts \in UNION {[1..n -> SetStatements] : n \in 1..MaxStmts}
    /\ config_text = [i \in DOMAIN stmts |-> RenderSet(stmts[i])]
    /\ parse_pc = "ready"
    /\ TreeIdle /\ DictIdle /\ DiffIdle /\ RbIdle /\ BkIdle /\ RsIdle /\ CvIdle /\ CrIdle /\ LdIdle /\ ValIdle /\ VvIdle /\ ExIdle /\ RlIdle /\ CfIdle /\ RtIdle

NextParse == ParseConfig

SpecParse == InitParse /\ [][NextParse]_vars

\* C2: every statement "set s1 ... sn v" (v optionally quoted) puts v,
\* without its quotes, at the nested key path s1/.../sn of to_dict(); two
\* statements that share the path prefix and differ in the last segment both
\* appear.  (A statement that another statement of the text overwrites or
\* contains is left out of the comparison.)
C2_SetStoresValueAtPath ==
    parse_pc = "parsed"
    => \A i \in DOMAIN stmts :
          (\A j \in DOMAIN stmts \ {i} :
              /\ Front(stmts[j].segs) = Front(stmts[i].segs)
              /\ Last(stmts[j].segs) /= Last(stmts[i].segs))
          => <<stmts[i].segs, stmts[i].value>> \in to_dict(config_root)

(***************************************************************************)
(* SpecDiff: two trees, each grown from the same stored configuration by    *)
(* commands, then compared in both directions                               *)
(***************************************************************************)
DiffCommands ==
    {ConfigCommand("set", p, v) : p \in CommandPaths \ {<<>>}, v \in {None} \cup Values}
    \cup {ConfigCommand("delete", p, None) : p \in CommandPaths \ {<<>>}}

\* the configurations both trees start from: none, and {b: {a: v, b: v}}
DiffBaseMaps ==
    { <<>>,
      << << <<<<"b">>>>, DictMark >>,
         << <<<<"b">>, <<"a">>>>, <<"v">> >>,
         << <<<<"b">>, <<"b">>>>, <<"v">> >> >> }

InitDiff ==
    /\ \E m \in DiffBaseMaps :
          /\ old_config = from_dict(m)
          /\ new_config = from_dict(m)
    /\ diff = EmptyDiff
    /\ diff_rev = EmptyDiff
    /\ diff_ops = 0
    /\ diff_pc = "build"
    /\ TreeIdle /\ DictIdle /\ ParseIdle /\ RbIdle /\ BkIdle /\ RsIdle /\ CvIdle /\ CrIdle /\ LdIdle /\ ValIdle /\ VvIdle /\ ExIdle /\ RlIdle /\ CfIdle /\ RtIdle

\* a command applied to the old tree
ApplyOld ==
    /\ diff_pc = "build"
    /\ diff_ops < MaxDiffOps
    /\ \E cmd \in DiffCommands : old_config' = _apply_command(old_config, cmd)
    /\ diff_ops' = diff_ops + 1
    /\ UNCHANGED <<new_config, diff, diff_rev, diff_pc, notDiffVars>>

\* a command applied to the new tree
ApplyNew ==
    /\ diff_pc = "build"
    /\ diff_ops < MaxDiffOps
    /\ \E cmd \in DiffCommands : new_config' = _apply_command(new_config, cmd)
    /\ diff_ops' = diff_ops + 1
    /\ UNCHANGED <<old_config, diff, diff_rev, diff_pc, notDiffVars>>

\* parser.calculate_diff, called in both directions
CalculateDiff ==
    /\ diff_pc = "build"
    /\ diff' = calculate_diff(old_config, new_config)
    /\ diff_rev' = calculate_diff(new_config, old_config)
    /\ diff_pc' = "done"
    /\ UNCHANGED <<old_config, new_config, diff_ops, notDiffVars>>

NextDiff == ApplyOld \/ ApplyNew \/ CalculateDiff

SpecDiff == InitDiff /\ [][NextDiff]_vars

DiffKeys(entries) == {e[1] : e \in entries}

\* C6: calculate_diff puts a dotted path in added, with the new value,
\* exactly when it is absent from old.flatten() and present in new.flatten();
\* in removed, with the old value, exactly when present in old and absent in
\* new; in modified, with (old value, new value), exactly when present in
\* both with unequal values; in none of them otherwise; and the three key
\* sets are pairwise disjoint.
C6_DiffClassifiesPaths ==
    diff_pc = "done"
    => LET old_flat == flatten(old_config)
           new_flat == flatten(new_config)
           ValueIn(flat, k) == (CHOOSE e \in Items(flat) : e[1] = k)[2]
       IN /\ diff.added = {<<k, ValueIn(new_flat, k)>> : k \in Keys(new_flat) \ Keys(old_flat)}
          /\ diff.removed = {<<k, ValueIn(old_flat, k)>> : k \in Keys(old_flat) \ Keys(new_flat)}
          /\ diff.modified =
                {<<k, <<ValueIn(old_flat, k), ValueIn(new_flat, k)>> >> :
                    k \in {x \in Keys(old_flat) \cap Keys(new_flat) :
                              ValueIn(old_flat, x) /= ValueIn(new_flat, x)}}
          /\ DiffKeys(diff.added) \cap DiffKeys(diff.removed) = {}
          /\ DiffKeys(diff.added) \cap DiffKeys(diff.modified) = {}
          /\ DiffKeys(diff.removed) \cap DiffKeys(diff.modified) = {}

\* the case of C6: one diff with an added, a removed and a modified path,
\* and a path present and equal in both trees
C6_AllFourClasses ==
    /\ diff_pc = "done"
    /\ diff.added /= {} /\ diff.removed /= {} /\ diff.modified /= {}
    /\ Items(flatten(old_config)) \cap Items(flatten(new_config)) /= {}

\* C7: calculate_diff(a, b).added = calculate_diff(b, a).removed and the
\* other way round, and the modified entries of the one are the value-swapped
\* modified entries of the other.
C7_DiffSymmetry ==
    diff_pc = "done"
    => /\ diff.added = diff_rev.removed
       /\ diff.removed = diff_rev.added
       /\ {<<e[1], <<e[2][2], e[2][1]>> >> : e \in diff.modified} = diff_rev.modified
       /\ DiffKeys(diff.modified) = DiffKeys(diff_rev.modified)

\* the case of C7: both directions computed for trees that differ by an
\* added, a removed and a modified path
C7_BothDirectionsNonEmpty ==
    /\ diff_pc = "done"
    /\ diff_rev.added /= {} /\ diff_rev.removed /= {} /\ diff_rev.modified /= {}

(***************************************************************************)
(* SpecRollback: one ConfigRollbackManager over an empty storage directory  *)
(***************************************************************************)
\* the configurations that are snapshotted
RbConfigs == {from_dict(m) : m \in DiffBaseMaps}

InitRollback ==
    /\ rb_snapshots = <<>>
    /\ rb_files = {}
    /\ rb_index = <<>>
    /\ rb_clock = 0
    /\ rb_created = <<>>
    /\ TreeIdle /\ DictIdle /\ ParseIdle /\ DiffIdle /\ BkIdle /\ RsIdle /\ CvIdle /\ CrIdle /\ LdIdle /\ ValIdle /\ VvIdle /\ ExIdle /\ RlIdle /\ CfIdle /\ RtIdle

\* time passes
Tick ==
    /\ rb_clock < MaxClock
    /\ rb_clock' = rb_clock + 1
    /\ UNCHANGED <<rb_snapshots, rb_files, rb_index, rb_created, notRbVars>>

\* manager.create_snapshot(config)
RbCreateSnapshot ==
    /\ ld_state = "ready"
    /\ Len(rb_created) < MaxCreates
    /\ \E config \in RbConfigs :
        LET snapshot == [id |-> _generate_snapshot_id(rb_clock),
                         timestamp |-> rb_clock,
                         config_data |-> to_dict(config)]
            pruned == _prune_old_snapshots(Append(rb_snapshots, snapshot),
                                           _save_snapshot(rb_files, snapshot))
        IN /\ rb_snapshots' = pruned.snapshots
           /\ rb_files' = pruned.files
           /\ rb_index' = pruned.snapshots
           /\ rb_created' = Append(rb_created, snapshot)
    /\ UNCHANGED <<rb_clock, notRbVars>>

NextRollback == Tick \/ RbCreateSnapshot

SpecRollback == InitRollback /\ [][NextRollback]_vars

Count(seq, x) == Cardinality({i \in DOMAIN seq : seq[i] = x})

\* C8: after any sequence of create_snapshot calls with max_snapshots = N,
\* list_snapshots() holds at most N snapshots, and they are the N most recent
\* by timestamp of all the snapshots created (all of them when fewer than N
\* were created).
C8_PruningKeepsMostRecent ==
    LET listed == list_snapshots(rb_snapshots, NoLimit)
    IN /\ Len(listed) <= MaxSnapshots
       /\ Len(listed) = (IF Len(rb_created) < MaxSnapshots THEN Len(rb_created)
                                                            ELSE MaxSnapshots)
       /\ \A i \in DOMAIN listed : Count(listed, listed[i]) <= Count(rb_created, listed[i])
       /\ \A j \in DOMAIN rb_created :
             Count(listed, rb_created[j]) < Count(rb_created, rb_created[j])
             => \A i \in DOMAIN listed : listed[i].timestamp >= rb_created[j].timestamp

\* the case of C8: more snapshots were created than are kept, at different
\* times, and the index is full
C8_PrunedAfterOverflow ==
    /\ Len(rb_created) > MaxSnapshots + 1
    /\ Len(rb_snapshots) = MaxSnapshots
    /\ \E i, j \in DOMAIN rb_created : rb_created[i].timestamp /= rb_created[j].timestamp

\* C9: every snapshot a manager creates gets an id that no other snapshot it
\* ever created has, two calls within the same second included, and no id
\* occurs twice in the index.
C9_SnapshotIdsUnique ==
    /\ \A i, j \in DOMAIN rb_created : i /= j => rb_created[i].id /= rb_created[j].id
    /\ \A i, j \in DOMAIN rb_snapshots : i /= j => rb_snapshots[i].id /= rb_snapshots[j].id

(***************************************************************************)
(* SpecBackup: create_snapshot calls of one ConfigBackupManager             *)
(***************************************************************************)
\* the live configurations: the lines "show configuration commands" prints
LiveConfigs == {<<"set interfaces ethernet eth0 address 192.168.1.1/24">>,
                <<"set system host-name vyos", "# saved", "set service ssh port 22", "">>}

InitBackup ==
    /\ bk_live \in LiveConfigs
    /\ bk_content = {}
    /\ bk_meta = {}
    /\ bk_last = NoCall
    /\ bk_calls = 0
    /\ TreeIdle /\ DictIdle /\ ParseIdle /\ DiffIdle /\ RbIdle /\ RsIdle /\ CvIdle /\ CrIdle /\ LdIdle /\ ValIdle /\ VvIdle /\ ExIdle /\ RlIdle /\ CfIdle /\ RtIdle

\* manager.create_snapshot(name): the outcomes of its execute() calls are
\* the device's; the size can be counted only of a file that was written
BkCreateSnapshot ==
    /\ bk_calls < MaxBackupCalls
    /\ \E fetch \in ExecOutcomes, write \in ExecOutcomes,
          wc \in ExecOutcomes \cup {"garbled"}, save \in ExecOutcomes :
        /\ wc = "success" => write = "success"
        /\ LET r == create_snapshot(bk_calls + 1, bk_live, bk_content, bk_meta,
                                    fetch, write, wc, save)
           IN /\ bk_content' = r.content
              /\ bk_meta' = r.meta
              /\ bk_last' = [called |-> TRUE, snapshot |-> r.snapshot, raised |-> r.raised,
                             fetch |-> fetch, write |-> write, wc |-> wc, save |-> save]
    /\ bk_calls' = bk_calls + 1
    /\ UNCHANGED <<bk_live, notBkVars>>

NextBackup == BkCreateSnapshot

SpecBackup == InitBackup /\ [][NextBackup]_vars

\* C10: ConfigBackupManager.create_snapshot never raises; whenever one of
\* its steps fails (fetching the live configuration, writing the content,
\* reading the size, saving the metadata) the snapshot returned has status
\* failed; status completed is returned only when every step succeeded and
\* content and metadata are both stored.
C10_FailedStepGivesFailedStatus ==
    bk_last.called
    => LET id == bk_last.snapshot.id
           allOk == /\ bk_last.fetch = "success" /\ bk_last.write = "success"
                    /\ bk_last.wc = "success" /\ bk_last.save = "success"
       IN /\ ~bk_last.raised
          /\ ~allOk => bk_last.snapshot.status = "failed"
          /\ bk_last.snapshot.status = "completed"
             => /\ allOk
                /\ \E c \in bk_content : c.id = id
                /\ \E m \in bk_meta : m.id = id

(***************************************************************************)
(* SpecRestore: one device with a ConfigBackupManager and a                 *)
(* ConfigVersionManager; snapshots and versions are created, deleted and    *)
(* restored, one call after the other                                       *)
(***************************************************************************)
\* what the device answers to a command in these calls: it runs it, or it
\* cannot be reached
DeviceOutcomes == {"success", "error"}

ConfigLinesOf(text) == {text[i] : i \in {j \in DOMAIN text : IsConfigLine(text[j])}}

InitRestore ==
    /\ bk_live \in LiveConfigs
    /\ bk_content = {}
    /\ bk_meta = {}
    /\ bk_last = NoCall
    /\ bk_calls = 0
    /\ ver_files = {}
    /\ ver_meta = {}
    /\ ver_assigned = <<>>
    /\ ver_calls = 0
    /\ rs_log = <<>>
    /\ rs_result = NoCall
    /\ rs_ops = 0
    /\ dev_rejects \in {{}} \cup {{l} : l \in ConfigLinesOf(bk_live)}
    /\ TreeIdle /\ DictIdle /\ ParseIdle /\ DiffIdle /\ RbIdle /\ CvIdle /\ CrIdle /\ LdIdle /\ ValIdle /\ VvIdle /\ ExIdle /\ RlIdle /\ CfIdle /\ RtIdle

\* what a call returned, with the store's answer to "is this id stored"
\* taken before the call
AllOk(fetch, write, wc, save) ==
    fetch = "success" /\ write = "success" /\ wc = "success" /\ save = "success"

CallResult(op, id, dry_run, existed, ok, result) ==
    [called |-> TRUE, op |-> op, id |-> id, dry_run |-> dry_run, existed |-> existed,
     ok |-> ok, success |-> result.success, message |-> result.message, line |-> result.line]

\* backup_manager.create_snapshot(name)
RsCreateSnapshot ==
    /\ rs_ops < MaxRestoreOps
    /\ \E fetch \in DeviceOutcomes, write \in DeviceOutcomes,
          wc \in DeviceOutcomes \cup {"garbled"}, save \in DeviceOutcomes :
        /\ wc = "success" => write = "success"
        /\ LET id == bk_calls + 1
               r == create_snapshot(id, bk_live, bk_content, bk_meta, fetch, write, wc, save)
           IN /\ bk_content' = r.content
              /\ bk_meta' = r.meta
              /\ rs_log' = <<Cmd("write", "", id)>>
                           \o (IF r.snapshot.status = "completed"
                               THEN <<Cmd("write_meta", "", id)>> ELSE <<>>)
              /\ rs_result' = CallResult("create_snapshot", id, FALSE, FALSE, AllOk(fetch, write, wc, save),
                                  RestoreResult(r.snapshot.status = "completed", "", ""))
    /\ bk_calls' = bk_calls + 1
    /\ rs_ops' = rs_ops + 1
    /\ UNCHANGED <<bk_live, bk_last, ver_files, ver_meta, ver_assigned, ver_calls,
                   dev_rejects, notBkRsVars>>

\* backup_manager.delete_snapshot(snapshot_id)
BkDeleteSnapshot ==
    /\ rs_ops < MaxRestoreOps
    /\ \E id \in 1..(bk_calls + 1), rm \in DeviceOutcomes :
        LET r == delete_snapshot(id, bk_content, bk_meta, rm)
        IN /\ bk_content' = r.content
           /\ bk_meta' = r.meta
           /\ rs_log' = r.log
           /\ rs_result' = CallResult("delete_snapshot", id, FALSE,
                               (\E c \in bk_content : c.id = id) \/ (\E m \in bk_meta : m.id = id),
                               rm = "success",
                               RestoreResult(r.returned, "", ""))
    /\ rs_ops' = rs_ops + 1
    /\ UNCHANGED <<bk_live, bk_last, bk_calls, ver_files, ver_meta, ver_assigned, ver_calls,
                   dev_rejects, notBkRsVars>>

\* await backup_manager.restore_from_snapshot(snapshot_id, dry_run)
RestoreFromSnapshot ==
    /\ rs_ops < MaxRestoreOps
    /\ \E id \in 1..(bk_calls + 1), dry_run \in BOOLEAN,
          fetch \in DeviceOutcomes, write \in DeviceOutcomes,
          wc \in DeviceOutcomes \cup {"garbled"}, save \in DeviceOutcomes,
          configure \in DeviceOutcomes, commit \in DeviceOutcomes :
        /\ wc = "success" => write = "success"
        /\ LET r == restore_from_snapshot(id, dry_run, bk_live, bk_content, bk_meta,
                                          dev_rejects, bk_calls + 1,
                                          fetch, write, wc, save, configure, commit)
           IN /\ bk_content' = r.content
              /\ bk_meta' = r.meta
              /\ bk_calls' = IF r.created THEN bk_calls + 1 ELSE bk_calls
              /\ rs_log' = r.log
              /\ rs_result' = CallResult("restore_from_snapshot", id, dry_run,
                                  \E m \in bk_meta : m.id = id,
                                  /\ AllOk(fetch, write, wc, save)
                                  /\ configure = "success" /\ commit = "success",
                                  r.result)
    /\ rs_ops' = rs_ops + 1
    /\ UNCHANGED <<bk_live, bk_last, ver_files, ver_meta, ver_assigned, ver_calls,
                   dev_rejects, notBkRsVars>>

\* version_manager.create_version(name)
CreateVersion ==
    /\ rs_ops < MaxRestoreOps
    /\ \E fetch \in DeviceOutcomes, write \in DeviceOutcomes,
          wc \in DeviceOutcomes \cup {"garbled"}, save \in DeviceOutcomes :
        /\ wc = "success" => write = "success"
        /\ LET id == ver_calls + 1
               r == create_version(id, bk_live, ver_files, ver_meta, fetch, write, wc, save)
           IN /\ ver_files' = r.files
              /\ ver_meta' = r.meta
              /\ ver_assigned' = IF r.raised THEN ver_assigned
                                 ELSE Append(ver_assigned, r.version.version)
              /\ rs_log' = r.log
              /\ rs_result' = CallResult("create_version", id, FALSE, FALSE, AllOk(fetch, write, wc, save),
                                  RestoreResult(~r.raised, "", ""))
    /\ ver_calls' = ver_calls + 1
    /\ rs_ops' = rs_ops + 1
    /\ UNCHANGED <<bkVars, dev_rejects, notBkRsVars>>

\* version_manager.delete_version(version_id)
DeleteVersion ==
    /\ rs_ops < MaxRestoreOps
    /\ \E id \in 1..(ver_calls + 1), rm_file \in DeviceOutcomes, rm_meta \in DeviceOutcomes :
        LET r == delete_version(id, ver_files, ver_meta, rm_file, rm_meta)
        IN /\ ver_files' = r.files
           /\ ver_meta' = r.meta
           /\ rs_log' = r.log
           /\ rs_result' = CallResult("delete_version", id, FALSE,
                               \E m \in ver_meta : m.id = id,
                               rm_file = "success" /\ rm_meta = "success",
                               RestoreResult(r.returned, "", ""))
    /\ rs_ops' = rs_ops + 1
    /\ UNCHANGED <<bkVars, ver_assigned, ver_calls, dev_rejects, notBkRsVars>>

\* version_manager.restore_version(version_id, dry_run)
RestoreVersion ==
    /\ rs_ops < MaxRestoreOps
    /\ \E id \in 1..(ver_calls + 1), dry_run \in BOOLEAN,
          fetch \in DeviceOutcomes, write \in DeviceOutcomes,
          wc \in DeviceOutcomes \cup {"garbled"}, save \in DeviceOutcomes :
        /\ wc = "success" => write = "success"
        /\ LET r == restore_version(id, dry_run, bk_live, ver_files, ver_meta,
                                    ver_calls + 1, fetch, write, wc, save)
           IN /\ ver_files' = r.files
              /\ ver_meta' = r.meta
              /\ ver_calls' = IF r.created THEN ver_calls + 1 ELSE ver_calls
              /\ ver_assigned' = IF r.created /\ r.version /= NoVersion
                                 THEN Append(ver_assigned, r.version.version)
                                 ELSE ver_assigned
              /\ rs_log' = r.log
              /\ rs_result' = CallResult("restore_version", id, dry_run,
                                  \E m \in ver_meta : m.id = id,
                                  AllOk(fetch, write, wc, save), r.result)
    /\ rs_ops' = rs_ops + 1
    /\ UNCHANGED <<bkVars, dev_rejects, notBkRsVars>>

NextRestore ==
    \/ RsCreateSnapshot
    \/ BkDeleteSnapshot
    \/ RestoreFromSnapshot
    \/ CreateVersion
    \/ DeleteVersion
    \/ RestoreVersion

SpecRestore == InitRestore /\ [][NextRestore]_vars

IsRestore(call) == call.called /\ call.op \in {"restore_from_snapshot", "restore_version"}

\* a command that applies one stored line, and a command that commits
AppliesLine(c) == c.cmd \in {"set", "configure_set_commit_exit"}
Commits(c) == c.cmd \in {"commit", "configure_set_commit_exit"}

\* C11: in a real restore (restore_from_snapshot or restore_version, not a
\* dry run) the first stored line the executor rejects ends the batch: no
\* later line is sent, the pending changes are discarded, nothing of the
\* batch is committed, and the result has success = false and names the line.
C11_RejectedLineEndsBatch ==
    (IsRestore(rs_result) /\ ~rs_result.dry_run)
    => \A i \in DOMAIN rs_log :
          (AppliesLine(rs_log[i]) /\ rs_log[i].line \in dev_rejects)
          => /\ \A j \in DOMAIN rs_log : j > i => ~AppliesLine(rs_log[j])
             /\ \E j \in DOMAIN rs_log : j > i /\ rs_log[j].cmd = "discard"
             /\ \A j \in DOMAIN rs_log : ~Commits(rs_log[j])
             /\ ~rs_result.success
             /\ rs_result.line = rs_log[i].line

\* the set commands of the stored lines, in stored order
RECURSIVE SetCommands(_)
SetCommands(lines) ==
    IF lines = <<>> THEN <<>>
    ELSE IF IsConfigLine(Head(lines))
         THEN <<Cmd("set", Head(lines), 0)>> \o SetCommands(Tail(lines))
         ELSE SetCommands(Tail(lines))

\* C12: a real restore_from_snapshot of an existing snapshot with non-empty
\* stored content, every executor command succeeding, sends in this order:
\* the creation of the safety snapshot, configure, one set per non-blank
\* non-# stored line in stored order, one commit, exit, save; and returns
\* success = true.
C12_RestoreSequence ==
    LET stored == ReadContent(bk_content, rs_result.id)
    IN (/\ rs_result.called /\ rs_result.op = "restore_from_snapshot"
        /\ ~rs_result.dry_run /\ rs_result.existed /\ rs_result.ok
        /\ stored /= <<>>
        /\ dev_rejects \cap ConfigLinesOf(stored) = {})
       => /\ rs_result.success
          /\ rs_log = <<Cmd("write", "", bk_calls), Cmd("write_meta", "", bk_calls),
                        Cmd("configure", "", 0)>>
                      \o SetCommands(stored)
                      \o <<Cmd("commit", "", 0), Cmd("exit", "", 0), Cmd("save", "", 0)>>

C14_VersionNumbersIncrease ==
    /\ \A i \in DOMAIN ver_assigned : ver_assigned[i] >= 1
    /\ \A i, j \in DOMAIN ver_assigned : i < j => ver_assigned[i] < ver_assigned[j]

\* C17: delete_snapshot(id) returns False and changes nothing when no
\* snapshot has the id; when one has, it removes its content and metadata
\* and returns True, and get_snapshot(id) then finds nothing.
C17_DeleteSnapshotResult ==
    (rs_result.called /\ rs_result.op = "delete_snapshot")
    => /\ ~rs_result.existed => ~rs_result.success
       /\ (rs_result.existed /\ rs_result.ok)
          => /\ rs_result.success
             /\ ~\E c \in bk_content : c.id = rs_result.id
             /\ get_snapshot(bk_meta, rs_result.id) = NoMeta

(***************************************************************************)
(* SpecConcVersion: create_version called by several threads or worker      *)
(* processes on one version store.  The code takes no lock, so the calls    *)
(* interleave at every execute(); a step here is one part of create_version *)
(* that reads or writes the store, together with the executes next to it    *)
(* that touch nothing shared (the fetch of the configuration, the wc).      *)
(***************************************************************************)
Callers == 1..NumCallers

InitConcVersion ==
    /\ cv_files = {}
    /\ cv_meta = {}
    /\ cv_pc = [c \in Callers |-> "idle"]
    /\ cv_local = [c \in Callers |-> NoVersion]
    /\ cv_calls = 0
    /\ TreeIdle /\ DictIdle /\ ParseIdle /\ DiffIdle /\ RbIdle /\ BkIdle /\ RsIdle /\ CrIdle /\ LdIdle /\ ValIdle /\ VvIdle /\ ExIdle /\ RlIdle /\ CfIdle /\ RtIdle

\* the call begins: version_id = str(uuid.uuid4())
CvBegin(c) ==
    /\ cv_pc[c] = "idle"
    /\ cv_calls < MaxVersionCalls
    /\ cv_calls' = cv_calls + 1
    /\ cv_local' = [cv_local EXCEPT ![c] = [id |-> cv_calls + 1, version |-> 0]]
    /\ cv_pc' = [cv_pc EXCEPT ![c] = "list"]
    /\ UNCHANGED <<cv_files, cv_meta, notCvVars>>

\* versions = self.list_versions(); version_num = max(...) + 1
CvListVersions(c) ==
    /\ cv_pc[c] = "list"
    /\ cv_local' = [cv_local EXCEPT ![c].version = MaxVersion(cv_meta) + 1]
    /\ cv_pc' = [cv_pc EXCEPT ![c] = "write"]
    /\ UNCHANGED <<cv_files, cv_meta, cv_calls, notCvVars>>

\* the configuration is fetched and the version file written
CvWriteContent(c) ==
    /\ cv_pc[c] = "write"
    /\ \E write \in DeviceOutcomes :
          cv_files' = IF write = "success"
                      THEN cv_files \cup {[id |-> cv_local[c].id,
                                           version |-> cv_local[c].version]}
                      ELSE cv_files
    /\ cv_pc' = [cv_pc EXCEPT ![c] = "save"]
    /\ UNCHANGED <<cv_meta, cv_local, cv_calls, notCvVars>>

\* the size is read and _save_version_metadata writes meta_<id>.json; the
\* call returns, or raises when int() fails on the size
CvSaveMetadata(c) ==
    /\ cv_pc[c] = "save"
    /\ \E wc \in DeviceOutcomes \cup {"garbled"}, save \in DeviceOutcomes :
          cv_meta' = IF ParseSize(CommandResult(wc, <<0>>)).raises \/ save /= "success"
                     THEN cv_meta
                     ELSE cv_meta \cup {cv_local[c]}
    /\ cv_pc' = [cv_pc EXCEPT ![c] = "idle"]
    /\ UNCHANGED <<cv_files, cv_local, cv_calls, notCvVars>>

NextConcVersion ==
    \E c \in Callers :
        \/ CvBegin(c)
        \/ CvListVersions(c)
        \/ CvWriteContent(c)
        \/ CvSaveMetadata(c)

SpecConcVersion == InitConcVersion /\ [][NextConcVersion]_vars

\* C15: when create_version calls run concurrently on one store, their
\* steps interleaved in any order, the versions they persist carry pairwise
\* distinct version numbers.
C15_ConcurrentNumbersDistinct ==
    \A m1, m2 \in cv_meta : m1.id /= m2.id => m1.version /= m2.version

(***************************************************************************)
(* SpecConcRestore: real restores started concurrently against one device,  *)
(* by threads or worker processes.  Neither restore takes a lock; a step    *)
(* here is one execute() that changes the device, and cr_log is the order   *)
(* in which the device receives them.                                       *)
(***************************************************************************)
RestoreKinds == {"restore_from_snapshot", "restore_version"}

NoRestore == [kind |-> "none", lines |-> <<>>]

InitConcRestore ==
    /\ cr_pc = [c \in Callers |-> "idle"]
    /\ cr_call = [c \in Callers |-> NoRestore]
    /\ cr_next = [c \in Callers |-> 1]
    /\ cr_log = <<>>
    /\ TreeIdle /\ DictIdle /\ ParseIdle /\ DiffIdle /\ RbIdle /\ BkIdle /\ RsIdle /\ CvIdle /\ LdIdle /\ ValIdle /\ VvIdle /\ ExIdle /\ RlIdle /\ CfIdle /\ RtIdle

\* the call begins: the snapshot or version is looked up and its stored
\* text read (dry_run = false, the id exists, the text is not empty)
CrBegin(c) ==
    /\ cr_pc[c] = "idle"
    /\ cr_call[c] = NoRestore
    /\ \E kind \in RestoreKinds, text \in LiveConfigs :
          cr_call' = [cr_call EXCEPT ![c] = [kind |-> kind, lines |-> text]]
    /\ cr_pc' = [cr_pc EXCEPT ![c] = "safety"]
    /\ UNCHANGED <<cr_next, cr_log, notCrVars>>

\* the safety copy is created; in restore_from_snapshot the await of its
\* result raises TypeError and the call returns success = false with no
\* configure sent; restore_version goes on to its loop
CrSafety(c) ==
    /\ cr_pc[c] = "safety"
    /\ cr_pc' = [cr_pc EXCEPT ![c] =
                    IF cr_call[c].kind = "restore_from_snapshot" /\ AwaitOfSnapshotRaises
                    THEN "failed" ELSE "apply"]
    /\ UNCHANGED <<cr_call, cr_next, cr_log, notCrVars>>

\* the loop of restore_version over the stored lines: a blank or # line is
\* skipped, any other is sent as one script with configure, commit and exit
CrApplyLine(c) ==
    /\ cr_pc[c] = "apply"
    /\ cr_call[c].kind = "restore_version"
    /\ cr_next[c] <= Len(cr_call[c].lines)
    /\ LET line == cr_call[c].lines[cr_next[c]]
       IN cr_log' = IF IsConfigLine(line)
                    THEN Append(cr_log, [caller |-> c, cmd |-> "configure_set_commit_exit",
                                         line |-> line])
                    ELSE cr_log
    /\ cr_next' = [cr_next EXCEPT ![c] = cr_next[c] + 1]
    /\ UNCHANGED <<cr_pc, cr_call, notCrVars>>

\* after the last line: restore_version sends save and returns
CrSave(c) ==
    /\ cr_pc[c] = "apply"
    /\ cr_next[c] > Len(cr_call[c].lines)
    /\ cr_call[c].kind = "restore_version"
    /\ cr_log' = Append(cr_log, [caller |-> c, cmd |-> "save", line |-> ""])
    /\ cr_pc' = [cr_pc EXCEPT ![c] = "done"]
    /\ UNCHANGED <<cr_call, cr_next, notCrVars>>

NextConcRestore ==
    \E c \in Callers :
        \/ CrBegin(c)
        \/ CrSafety(c)
        \/ CrApplyLine(c)
        \/ CrSave(c)

SpecConcRestore == InitConcRestore /\ [][NextConcRestore]_vars

\* C16: at most one real restore is in flight against the device: when two
\* restores are started concurrently, the executor commands of one never
\* come between the executor commands of the other.
C16_RestoresDoNotInterleave ==
    \A i, j, k \in DOMAIN cr_log :
        (i < j /\ j < k /\ cr_log[i].caller = cr_log[k].caller)
        => cr_log[j].caller = cr_log[i].caller

(***************************************************************************)
(* SpecLoad: a ConfigRollbackManager constructed over a storage directory   *)
(* that holds an index file, then used                                      *)
(***************************************************************************)
RecordSeqs == UNION {[1..n -> RecordKinds] : n \in 0..MaxRecords}

IndexFiles ==
    {[shape |-> sh, records |-> <<>>] :
        sh \in {"absent", "invalid_json", "not_object", "snapshots_not_list"}}
    \cup {[shape |-> "object", records |-> r] : r \in RecordSeqs}

\* corrupt or unreadable: not valid JSON, a top-level value of the wrong
\* shape, or a record with a missing field or a malformed timestamp
IsCorrupt(file) ==
    \/ file.shape \in {"invalid_json", "not_object", "snapshots_not_list"}
    \/ file.shape = "object" /\ \E i \in DOMAIN file.records : file.records[i] /= "good"

InitLoad ==
    /\ ld_file \in IndexFiles
    /\ ld_state = "none"
    /\ ld_loaded = <<>>
    /\ rb_snapshots = <<>>
    /\ rb_files = IF \E i \in DOMAIN ld_file.records : ld_file.records[i] = "good"
                  THEN {StoredSnapshot} ELSE {}
    /\ rb_index = <<>>
    /\ rb_clock = TicksPerSecond
    /\ rb_created = <<>>
    /\ TreeIdle /\ DictIdle /\ ParseIdle /\ DiffIdle /\ BkIdle /\ RsIdle /\ CvIdle /\ CrIdle /\ ValIdle /\ VvIdle /\ ExIdle /\ RlIdle /\ CfIdle /\ RtIdle

\* ConfigRollbackManager(storage_dir)
Construct ==
    /\ ld_state = "none"
    /\ LET loaded == _load_index(ld_file)
       IN /\ ld_state' = IF loaded.raised = "" THEN "ready" ELSE "raised"
          /\ rb_snapshots' = IF loaded.raised = "" THEN loaded.snapshots ELSE <<>>
          /\ ld_loaded' = IF loaded.raised = "" THEN loaded.snapshots ELSE <<>>
    /\ UNCHANGED <<ld_file, rb_files, rb_index, rb_clock, rb_created, notRbLdVars>>

NextLoad == Construct \/ Tick \/ RbCreateSnapshot

SpecLoad == InitLoad /\ [][NextLoad]_vars

\* C18: constructing a ConfigRollbackManager over a corrupt or unreadable
\* index file never raises: the manager starts with an empty index, and a
\* following create_snapshot succeeds and is listed.
C18_CorruptIndexStartsEmpty ==
    IsCorrupt(ld_file)
    => /\ ld_state /= "raised"
       /\ ld_state = "ready"
          => /\ ld_loaded = <<>>
             /\ rb_created /= <<>>
                => \E i \in DOMAIN rb_snapshots : rb_snapshots[i] = Last(rb_created)

(***************************************************************************)
(* SpecRbStore: one ConfigRollbackManager under create_snapshot and         *)
(* delete_snapshot calls                                                    *)
(***************************************************************************)
\* manager.delete_snapshot(snapshot_id), for the id of a snapshot created
\* before or one never created
RbDeleteSnapshot ==
    /\ ld_state = "ready"
    /\ rb_created /= <<>>
    /\ \E id \in {rb_created[i].id : i \in DOMAIN rb_created} \cup {NoSnapshot.id} :
        LET r == rb_delete_snapshot(rb_snapshots, rb_files, id)
        IN /\ rb_snapshots' = r.snapshots
           /\ rb_files' = r.files
           /\ rb_index' = IF r.returned THEN r.snapshots ELSE rb_index
    /\ UNCHANGED <<rb_clock, rb_created, notRbVars>>

NextRbStore == Tick \/ RbCreateSnapshot \/ RbDeleteSnapshot

SpecRbStore == InitRollback /\ [][NextRbStore]_vars

\* C19: at the end of every create_snapshot (its pruning included) and of
\* every delete_snapshot, stored content and index agree item by item:
\* every snapshot in the index has its content file, and every snapshot
\* whose file is gone has left the index.
C19_ContentAndIndexAgree ==
    /\ \A i \in DOMAIN rb_snapshots : \E f \in rb_files : f.id = rb_snapshots[i].id
    /\ \A f \in rb_files : \E i \in DOMAIN rb_snapshots : rb_snapshots[i].id = f.id
    /\ rb_index = rb_snapshots

(***************************************************************************)
(* The frame of _apply_command, checked under Spec                          *)
(***************************************************************************)
\* C20: _apply_command changes the tree only for a set, for a delete whose
\* final child exists and for a comment whose final child exists; a rename,
\* an edit, and a comment or delete whose final child does not exist leave
\* the tree exactly as it was: no node is created, and to_dict() and
\* flatten() return what they returned before.
C20_ApplyCommandFrame ==
    (\/ last_cmd.command_type \in {"rename", "edit"}
     \/ /\ last_cmd.command_type \in {"comment", "delete"}
        /\ ~HasNode(prev_root, last_cmd.path))
    => /\ config_root = prev_root
       /\ to_dict(config_root) = to_dict(prev_root)
       /\ flatten(config_root) = flatten(prev_root)

(***************************************************************************)
(* SpecQuote: parse_config of texts whose lines hold quoted words, some of  *)
(* them with the closing quote missing                                      *)
(***************************************************************************)
QuoteChars == {<<"'">>, <<"\"">>}

\* "set n qv", "set n qvq", "delete n qv", "delete n qvq" for a quote q
QuoteLines ==
    {kw \o <<" ">> \o n \o <<" ">> \o q \o v \o close :
        kw \in {KwSet, KwDelete}, n \in Names, q \in QuoteChars, v \in Values,
        close \in {<<>>, <<"'">>, <<"\"">>}}

InitQuote ==
    /\ stmts = <<>>
    /\ config_text \in UNION {[1..n -> QuoteLines] : n \in 1..MaxStmts}
    /\ parse_pc = "ready"
    /\ TreeIdle /\ DictIdle /\ DiffIdle /\ RbIdle /\ BkIdle /\ RsIdle /\ CvIdle /\ CrIdle /\ LdIdle /\ ValIdle /\ VvIdle /\ ExIdle /\ RlIdle /\ CfIdle /\ RtIdle

NextQuote == ParseConfig

SpecQuote == InitQuote /\ [][NextQuote]_vars

\* a quote is open at the end of the line: a quote character opens a quoted
\* word, the same character closes it
RECURSIVE QuoteOpenAtEnd(_, _)
QuoteOpenAtEnd(line, open) ==
    IF line = <<>> THEN open /= ""
    ELSE IF open = "" THEN QuoteOpenAtEnd(Tail(line), IF IsQuote(Head(line)) THEN Head(line) ELSE "")
    ELSE QuoteOpenAtEnd(Tail(line), IF Head(line) = open THEN "" ELSE open)

UnterminatedQuote(line) == QuoteOpenAtEnd(line, "")

WithoutLine(text, i) == SubSeq(text, 1, i - 1) \o SubSeq(text, i + 1, Len(text))

\* C21: a line with an unterminated single or double quote yields no command
\* from parse_line, and parse_config applies the other lines of the text
\* exactly as if that line were absent.
C21_UnterminatedQuoteSkipsLine ==
    parse_pc = "parsed"
    => \A i \in DOMAIN config_text :
          UnterminatedQuote(config_text[i])
          => /\ parse_line(config_text[i]) = NoCommand
             /\ config_root = parse_config(WithoutLine(config_text, i))

(***************************************************************************)
(* SpecRules: the rule set of a validator under add_rule / remove_rule, and *)
(* lookups of dotted paths                                                  *)
(***************************************************************************)
MaxRules == 2

RuleIds == {"r1", "r2"}

Segments == {<<"a">>, <<"b">>, <<"*">>}

\* dotted paths of one and of two segments
DottedPaths ==
    Segments \cup {s \o <<".">> \o t : s \in Segments, t \in Segments}

\* stands for the built-in rule set: one wildcard pattern
STANDARD_RULES == <<[path |-> <<"a", ".", "*">>, rule |-> "r1"]>>

InitRules ==
    /\ val_rules = STANDARD_RULES
    /\ val_path = <<>>
    /\ val_found = NoRule
    /\ val_pc = "idle"
    /\ TreeIdle /\ DictIdle /\ ParseIdle /\ DiffIdle /\ RbIdle /\ BkIdle /\ RsIdle /\ CvIdle /\ CrIdle /\ LdIdle /\ VvIdle /\ ExIdle /\ RlIdle /\ CfIdle /\ RtIdle

AddRule ==
    \E path \in DottedPaths, rule \in RuleIds :
        /\ Len(add_rule(val_rules, path, rule)) <= MaxRules
        /\ val_rules' = add_rule(val_rules, path, rule)
        /\ val_path' = <<>>
        /\ val_found' = NoRule
        /\ val_pc' = "idle"
        /\ UNCHANGED notValVars

RemoveRule ==
    \E path \in DottedPaths :
        /\ val_rules' = remove_rule(val_rules, path)
        /\ val_path' = <<>>
        /\ val_found' = NoRule
        /\ val_pc' = "idle"
        /\ UNCHANGED notValVars

FindMatchingRule ==
    \E path \in DottedPaths :
        /\ val_path' = path
        /\ val_found' = _find_matching_rule(val_rules, path)
        /\ val_pc' = "found"
        /\ UNCHANGED <<val_rules, notValVars>>

NextRules == AddRule \/ RemoveRule \/ FindMatchingRule

SpecRules == InitRules /\ [][NextRules]_vars

SegmentsMatch(pattern, path) ==
    /\ Len(split_dot(pattern)) = Len(split_dot(path))
    /\ \A k \in 1..Len(split_dot(pattern)) :
          split_dot(pattern)[k] = <<"*">> \/ split_dot(pattern)[k] = split_dot(path)[k]

ExactEntries == {i \in DOMAIN val_rules : val_rules[i].path = val_path}

MatchingEntries == {i \in DOMAIN val_rules : SegmentsMatch(val_rules[i].path, val_path)}

\* C22: a lookup returns the rule stored under exactly the path when there is
\* one; otherwise the rule of the first entry, in insertion order, whose
\* pattern has as many segments as the path and at every position either `*`
\* or the path's segment; otherwise none.
C22_LookupExactThenFirstPattern ==
    val_pc = "found"
    => /\ ExactEntries /= {} => \E i \in ExactEntries : val_found = val_rules[i].rule
       /\ ExactEntries = {} /\ MatchingEntries /= {}
          => \E i \in MatchingEntries :
                /\ \A j \in MatchingEntries : i <= j
                /\ val_found = val_rules[i].rule
       /\ ExactEntries = {} /\ MatchingEntries = {} => val_found = NoRule

\* a lookup decided by insertion order: no exact entry, two patterns match,
\* they carry different rules, and the earlier one is returned
C22_TwoPatternsMatch ==
    /\ val_pc = "found"
    /\ ExactEntries = {}
    /\ MatchingEntries = {1, 2}
    /\ val_rules[1].rule /= val_rules[2].rule
    /\ val_found = val_rules[1].rule

(***************************************************************************)
(* SpecValidate: _validate_value on one value and one rule                  *)
(***************************************************************************)
RuleValues ==
    {NoValue, StrValue(<<"5">>), StrValue(<<"x">>), StrValue(<<>>), IntValue(2), IntValue(5),
     BoolValue(TRUE)}

ValidationRules ==
    [required : BOOLEAN,
     data_type : DataTypes,
     min_value : {NoBound, 3},
     max_value : {NoBound, 1, 4},
     allowed_values : {NoList, <<IntValue(5)>>, <<StrValue(<<"x">>), StrValue(<<"5">>)>>},
     pattern : {NoPattern, "^\\d+$"},
     custom_validator : {NoValidator} \cup CustomValidators]

InitValidate ==
    /\ vv_value \in RuleValues
    /\ vv_rule \in ValidationRules
    /\ vv_errors = <<>>
    /\ vv_pc = "ready"
    /\ TreeIdle /\ DictIdle /\ ParseIdle /\ DiffIdle /\ RbIdle /\ BkIdle /\ RsIdle /\ CvIdle /\ CrIdle /\ LdIdle /\ ValIdle /\ ExIdle /\ RlIdle /\ CfIdle /\ RtIdle

ValidateValue ==
    /\ vv_pc = "ready"
    /\ vv_errors' = _validate_value(vv_value, vv_rule)
    /\ vv_pc' = "validated"
    /\ UNCHANGED <<vv_value, vv_rule, notVvVars>>

NextValidate == ValidateValue

SpecValidate == InitValidate /\ [][NextValidate]_vars

\* the declared type cannot take the value: int() or float() of a string that
\* is not a numeral
CoercionFails ==
    /\ vv_rule.data_type \in {"int", "float"}
    /\ vv_value.t = "str"
    /\ ~IsNumeral(vv_value.s)

\* the value the checks see: the value as the declared type
Coerced ==
    CASE vv_rule.data_type = "int" ->
            IntValue(IF vv_value.t = "str" THEN ParseDigits(vv_value.s, 0) ELSE vv_value.n)
      [] vv_rule.data_type = "float" ->
            FloatValue(IF vv_value.t = "str" THEN ParseDigits(vv_value.s, 0) ELSE vv_value.n)
      [] vv_rule.data_type = "bool" ->
            BoolValue(vv_value \notin {StrValue(<<>>), IntValue(0), BoolValue(FALSE)})
      [] vv_rule.data_type = "str" -> StrValue(PyStr(vv_value))
      [] OTHER -> vv_value

BelowMinimum == vv_rule.min_value /= NoBound /\ IsNumber(Coerced) /\ Coerced.n < vv_rule.min_value

AboveMaximum == vv_rule.max_value /= NoBound /\ IsNumber(Coerced) /\ Coerced.n > vv_rule.max_value

NotAllowed ==
    /\ vv_rule.allowed_values /= NoList
    /\ \A i \in DOMAIN vv_rule.allowed_values : ~PyEq(Coerced, vv_rule.allowed_values[i])

PatternFails == vv_rule.pattern /= NoPattern /\ ~ReMatch(vv_rule.pattern, PyStr(Coerced))

CustomFails == vv_rule.custom_validator \in {"returns_false", "returns_one", "raises"}

CheckRank(error_type) ==
    CASE error_type = "range" -> 1
      [] error_type = "invalid_value" -> 2
      [] error_type = "pattern" -> 3
      [] error_type = "custom" -> 4
      [] OTHER -> 0

ErrorCount(error_type) == Cardinality({i \in DOMAIN vv_errors : vv_errors[i] = error_type})

\* C23: when the value cannot be coerced to the declared type the result is
\* the single error invalid_type; otherwise the errors come in the order
\* range, allowed values, pattern, custom, with one error for each failing
\* check (one for the minimum and one for the maximum of the range) and none
\* for a check that passes.
C23_TypeErrorAloneElseEveryFailure ==
    vv_pc = "validated" /\ vv_value /= NoValue
    => /\ CoercionFails => vv_errors = <<"invalid_type">>
       /\ ~CoercionFails =>
             /\ \A i \in DOMAIN vv_errors : CheckRank(vv_errors[i]) > 0
             /\ \A i, j \in DOMAIN vv_errors : i < j => CheckRank(vv_errors[i]) <= CheckRank(vv_errors[j])
             /\ ErrorCount("range") = Cardinality({b \in {"min", "max"} :
                                            IF b = "min" THEN BelowMinimum ELSE AboveMaximum})
             /\ ErrorCount("invalid_value") = (IF NotAllowed THEN 1 ELSE 0)
             /\ ErrorCount("pattern") = (IF PatternFails THEN 1 ELSE 0)
             /\ ErrorCount("custom") = (IF CustomFails THEN 1 ELSE 0)

\* a coercion failure on a value that the allowed-values, pattern and custom
\* checks would all reject
C23_TypeErrorHidesFailures ==
    /\ vv_pc = "validated"
    /\ CoercionFails
    /\ vv_rule.allowed_values = <<IntValue(5)>>
    /\ vv_rule.pattern /= NoPattern
    /\ vv_rule.custom_validator = "returns_false"
    /\ vv_errors = <<"invalid_type">>

\* one value with an error of each of the four checks
C23_SeveralErrors ==
    /\ vv_pc = "validated"
    /\ vv_errors = <<"range", "invalid_value", "pattern", "custom">>

(***************************************************************************)
(* SpecExecute: one call of execute, one pass of its while loop per step    *)
(***************************************************************************)
MaxRetries == 4

InitExecute ==
    /\ ex_pc = "idle"
    /\ ex_retries = 0
    /\ ex_raise_on_error = FALSE
    /\ ex_retry_count = 0
    /\ ex_last_error = "None"
    /\ ex_outcomes = <<>>
    /\ ex_sleeps = <<>>
    /\ ex_result = NoResult
    /\ TreeIdle /\ DictIdle /\ ParseIdle /\ DiffIdle /\ RbIdle /\ BkIdle /\ RsIdle /\ CvIdle /\ CrIdle /\ LdIdle /\ ValIdle /\ VvIdle /\ RlIdle /\ CfIdle /\ RtIdle

\* lines 87-90
ExBegin ==
    /\ ex_pc = "idle"
    /\ \E retries \in 0..MaxRetries, raise_on_error \in BOOLEAN :
          /\ ex_retries' = retries
          /\ ex_raise_on_error' = raise_on_error
    /\ ex_retry_count' = 0
    /\ ex_last_error' = "None"
    /\ ex_pc' = "loop"
    /\ UNCHANGED <<ex_outcomes, ex_sleeps, ex_result, notExVars>>

\* one pass of the loop body, lines 92-153
ExAttempt ==
    /\ ex_pc = "loop"
    /\ ex_retry_count <= ex_retries
    /\ \E outcome \in AttemptOutcomes :
          /\ ex_outcomes' = Append(ex_outcomes, outcome)
          /\ IF EntersExcept(outcome, ex_raise_on_error)
             THEN /\ ex_last_error' = LastErrorOf(outcome)
                  /\ ex_retry_count' = ex_retry_count + 1
                  /\ ex_sleeps' = IF ex_retry_count + 1 <= ex_retries
                                  THEN Append(ex_sleeps, Backoff(ex_retry_count + 1))
                                  ELSE ex_sleeps
                  /\ UNCHANGED <<ex_pc, ex_result>>
             ELSE /\ ex_result' = AttemptResult(outcome, ex_retry_count)
                  /\ ex_pc' = "returned"
                  /\ UNCHANGED <<ex_last_error, ex_retry_count, ex_sleeps>>
    /\ UNCHANGED <<ex_retries, ex_raise_on_error, notExVars>>

\* the loop test fails, lines 155-165
ExExhausted ==
    /\ ex_pc = "loop"
    /\ ~(ex_retry_count <= ex_retries)
    /\ ex_result' = ExhaustedResult(ex_last_error, ex_retry_count)
    /\ ex_pc' = "returned"
    /\ UNCHANGED <<ex_retries, ex_raise_on_error, ex_retry_count, ex_last_error, ex_outcomes, ex_sleeps, notExVars>>

NextExecute == ExBegin \/ ExAttempt \/ ExExhausted

SpecExecute == InitExecute /\ [][NextExecute]_vars

\* the attempt ended in an exception or a timeout rather than in a result
AttemptRaised(i) ==
    \/ ex_outcomes[i] \in {"exception", "timeout"}
    \/ ex_outcomes[i] = "exit_nonzero" /\ ex_raise_on_error

FailedAttempts == {i \in DOMAIN ex_outcomes : AttemptRaised(i)}

C25_RaiseOnErrorRaises ==
    \A i \in DOMAIN ex_outcomes :
        ex_raise_on_error /\ ex_outcomes[i] = "exit_nonzero"
        => /\ i = Len(ex_outcomes)
           /\ ex_pc = "raised"
           /\ ex_result = NoResult

(***************************************************************************)
(* SpecRbList: snapshots are created as time passes, and listed             *)
(***************************************************************************)
Limits == {NoLimit} \cup 0..MaxSnapshots

\* manager.list_snapshots(limit)
RbListSnapshots ==
    /\ ld_state = "ready"
    /\ \E limit \in Limits :
          /\ rl_limit' = limit
          /\ rl_listed' = list_snapshots(rb_snapshots, limit)
    /\ rl_before' = rb_snapshots
    /\ rl_after' = rb_snapshots
    /\ rl_pc' = "listed"
    /\ UNCHANGED notRlVars

NextRbList == Tick \/ RbCreateSnapshot \/ RbListSnapshots

SpecRbList == InitRollback /\ [][NextRbList]_vars

\* the snapshot at position i of the index is among the n most recent: fewer
\* than n snapshots are newer, or as new and listed before it
AmongMostRecent(index, i, n) ==
    Cardinality({j \in DOMAIN index :
                    \/ index[j].timestamp > index[i].timestamp
                    \/ index[j].timestamp = index[i].timestamp /\ j < i}) < n

\* C26: list_snapshots returns snapshots in non-increasing timestamp order;
\* with a limit >= 0 it returns at most limit snapshots, the most recent
\* ones; with no limit it returns all of them; the index is unchanged.
C26_ListNewestFirstWithinLimit ==
    rl_pc = "listed"
    => /\ \A i, j \in DOMAIN rl_listed : i < j => rl_listed[i].timestamp >= rl_listed[j].timestamp
       /\ rl_limit /= NoLimit
          => /\ Len(rl_listed) <= rl_limit
             /\ Len(rl_listed) = (IF rl_limit < Len(rl_before) THEN rl_limit ELSE Len(rl_before))
             /\ \A i \in DOMAIN rl_before :
                   AmongMostRecent(rl_before, i, rl_limit)
                   => \E k \in DOMAIN rl_listed : rl_listed[k] = rl_before[i]
       /\ rl_limit = NoLimit
          => /\ Len(rl_listed) = Len(rl_before)
             /\ \A i \in DOMAIN rl_before : \E k \in DOMAIN rl_listed : rl_listed[k] = rl_before[i]
       /\ rl_after = rl_before

(***************************************************************************)
(* vyos_command.py: VyOSCommandExecutor.configure                           *)
(***************************************************************************)
CfgWrapper == <<"w", "r", "a", "p", "p", "e", "r", " ">>

\* the command line of one command of the batch, lines 196-199
WrapperLine(cmd) ==
    IF startswith(cmd, KwSet \o <<" ">>) \/ startswith(cmd, KwDelete \o <<" ">>)
    THEN CfgWrapper \o cmd
    ELSE CfgWrapper \o KwSet \o <<" ">> \o cmd

CommitLine == CfgWrapper \o <<"c", "o", "m", "m", "i", "t">>

StatusResult(status) ==
    [status |-> status,
     exit_code |-> CASE status = "success" -> 0 [] status = "failed" -> 1 [] OTHER -> -1,
     stderr |-> "stderr_text",
     retry_count |-> 0]

NoCommandsResult == [status |-> "error", exit_code |-> -1, stderr |-> "No commands executed", retry_count |-> 0]

\* configure(commands) when execute answers the i-th command with statuses[i]:
\* the lines executed and the result returned
configure(commands, statuses) ==
    LET lines == [i \in DOMAIN commands |-> WrapperLine(commands[i])]
        last_result == IF commands = <<>> THEN NoResult ELSE StatusResult(Last(statuses))
    IN [log |-> IF last_result /= NoResult /\ last_result.status = "success"
                THEN Append(lines, CommitLine) ELSE lines,
        result |-> IF last_result /= NoResult THEN last_result ELSE NoCommandsResult]

(***************************************************************************)
(* SpecConfigure: configure on a batch, every command answered by execute   *)
(***************************************************************************)
MaxBatch == 3

\* "set a", "delete b" and a command without keyword, "a v"
BatchCommands ==
    {KwSet \o <<" ", "a">>, KwDelete \o <<" ", "b">>, <<"a", " ", "v">>}

InitConfigure ==
    /\ cf_pc = "idle"
    /\ cf_commands = <<>>
    /\ cf_statuses = <<>>
    /\ cf_log = <<>>
    /\ cf_result = NoResult
    /\ TreeIdle /\ DictIdle /\ ParseIdle /\ DiffIdle /\ RbIdle /\ BkIdle /\ RsIdle /\ CvIdle /\ CrIdle /\ LdIdle /\ ValIdle /\ VvIdle /\ ExIdle /\ RlIdle /\ RtIdle

Configure ==
    /\ cf_pc = "idle"
    /\ \E n \in 0..MaxBatch :
        \E commands \in [1..n -> BatchCommands], statuses \in [1..n -> ExecOutcomes] :
            /\ cf_commands' = commands
            /\ cf_statuses' = statuses
            /\ cf_log' = configure(commands, statuses).log
            /\ cf_result' = configure(commands, statuses).result
            /\ cf_pc' = "done"
            /\ UNCHANGED notCfVars

NextConfigure == Configure

SpecConfigure == InitConfigure /\ [][NextConfigure]_vars

CommitIssued == \E i \in DOMAIN cf_log : cf_log[i] = CommitLine

EveryCommandSucceeded == \A i \in DOMAIN cf_statuses : cf_statuses[i] = "success"

\* C27: configure issues the commit only when every command of the batch
\* succeeded; when a command fails no commit is issued and the result
\* reports the failure.
C27_CommitOnlyAfterAllSucceeded ==
    cf_pc = "done"
    => /\ CommitIssued => EveryCommandSucceeded
       /\ ~EveryCommandSucceeded => ~CommitIssued /\ cf_result.status /= "success"

(***************************************************************************)
(* SpecRoundTrip: a tree built by set / delete / comment commands is        *)
(* snapshotted and the snapshot restored                                    *)
(***************************************************************************)
\* the items of to_dict() in the order the nested dicts hold them: a node's
\* entry, then the entries of its children
RECURSIVE to_dict_items(_, _)
to_dict_items(t, kids) ==
    IF kids = <<>> THEN <<>>
    ELSE LET c == Head(kids)
         IN (IF t[c].deleted THEN <<>>
             ELSE IF t[c].value /= None THEN << <<c, t[c].value>> >>
             ELSE IF t[c].children /= <<>>
                  THEN << <<c, DictMark>> >> \o to_dict_items(t, ChildSeq(t, c))
             ELSE <<>>)
            \o to_dict_items(t, Tail(kids))

InitRoundTrip == Init

\* parser._apply_command(cmd) for a set, delete or comment command
RtApplyCommand ==
    /\ rt_pc = "idle"
    /\ ApplyCommand
    /\ last_cmd'.command_type \in {"set", "delete", "comment"}

\* manager.create_snapshot(parser.config_root)
RtCreateSnapshot ==
    /\ rt_pc = "idle"
    /\ LET snapshot == [id |-> _generate_snapshot_id(rb_clock),
                        timestamp |-> rb_clock,
                        config_data |-> to_dict(config_root)]
           pruned == _prune_old_snapshots(Append(rb_snapshots, snapshot),
                                          _save_snapshot(rb_files, snapshot))
       IN /\ rb_snapshots' = pruned.snapshots
          /\ rb_files' = pruned.files
          /\ rb_index' = pruned.snapshots
          /\ rb_created' = Append(rb_created, snapshot)
          /\ rt_id' = snapshot.id
    /\ rt_dict' = to_dict_items(config_root, ChildSeq(config_root, <<>>))
    /\ rt_pc' = "created"
    /\ UNCHANGED <<rb_clock, rt_restored, treeVars, dictVars, parseVars, diffVars, bkVars, rsVars, cvVars, crVars, ldVars, valVars, vvVars, exVars, rlVars, cfVars>>

\* manager.restore_snapshot(id) with the id create_snapshot returned
RtRestoreSnapshot ==
    /\ rt_pc = "created"
    /\ _find_snapshot(rb_snapshots, rt_id) /= NoSnapshot
    /\ _find_snapshot(rb_snapshots, rt_id).config_data = Items(rt_dict)
    /\ rt_restored' = from_dict(rt_dict)
    /\ rt_pc' = "restored"
    /\ UNCHANGED <<rt_id, rt_dict, notRtVars>>

NextRoundTrip == RtApplyCommand \/ RtCreateSnapshot \/ RtRestoreSnapshot

SpecRoundTrip == InitRoundTrip /\ [][NextRoundTrip]_vars

\* C28: the tree restore_snapshot returns for the id of a retained snapshot
\* has the to_dict() the snapshotted tree had when the snapshot was taken,
\* which is also the config_data the snapshot stores.
C28_RestoreGivesSnapshotDict ==
    rt_pc = "restored"
    => /\ to_dict(rt_restored) = Items(rt_dict)
       /\ \A i \in DOMAIN rb_snapshots :
             rb_snapshots[i].id = rt_id => to_dict(rt_restored) = rb_snapshots[i].config_data

\* C29: for two trees built by commands, calculate_diff reports no added, no
\* removed and no modified entry exactly when the two trees have the same
\* to_dict().
C29_EmptyDiffIffSameDict ==
    diff_pc = "done"
    => (diff = EmptyDiff <=> to_dict(old_config) = to_dict(new_config))

\* the step gave a value to a strict ancestor of p: set_value cleared the
\* ancestor's children, the node at p among them
EvictedBy(cmd, p) ==
    /\ \/ cmd.command_type = "set" /\ cmd.value /= None
       \/ cmd.command_type = "set_value"
    /\ IsStrictPrefix(cmd.path, p)

\* C30: a tombstone is permanent.  A node marked deleted stays marked through
\* every later command and every later set_value / add_child, and to_dict()
\* has no entry at or below its path, also when the step sets a new value on
\* it; the one way out is a value set on an ancestor, which removes the node.
C30_TombstonePermanent ==
    [][\A p \in DOMAIN config_root :
          config_root[p].deleted
          => IF p \in DOMAIN config_root'
             THEN /\ config_root'[p].deleted
                  /\ \A e \in to_dict(config_root') : ~IsPrefix(p, e[1])
             ELSE EvictedBy(last_cmd', p)]_vars

\* a set with a value on a tombstoned node: the node holds the new value, is
\* still marked deleted and still missing from to_dict()
C30_SetOnTombstone ==
    /\ last_cmd.command_type = "set"
    /\ last_cmd.value /= None
    /\ HasNode(prev_root, last_cmd.path)
    /\ prev_root[last_cmd.path].deleted
    /\ config_root[last_cmd.path].value = last_cmd.value
    /\ config_root[last_cmd.path].deleted
    /\ \A e \in to_dict(config_root) : ~IsPrefix(last_cmd.path, e[1])

====
